---------------------------- MODULE Spec2Model ----------------------------
(***************************************************************************)
(* A model of WARK's sandboxed execution engine: the cost middleware       *)
(* (src/src/cost.rs), the guest's execution of the instrumented operator   *)
(* stream, and the run orchestrator with its trap classifier               *)
(* (src/src/run.rs).                                                       *)
(*                                                                         *)
(* 64-bit quantities are modelled at width U64Bits with the same           *)
(* two's-complement conversions the code performs (`as i64`, the unsigned  *)
(* comparison, the wrapping subtraction).  Guest data values that the      *)
(* engine never inspects are abstracted to AnyVal; a branch on it goes       *)
(* either way.                                                             *)
(***************************************************************************)
EXTENDS Integers, Sequences, FiniteSets, TLC

\* ------------------------------------------------------------------ bounds

\* Width, in bits, standing for the 64 bits of u64 / i64.
U64Bits == 21
\* Budgets 0..MaxSmallBudget are explored for every program.
MaxSmallBudget == 16
\* Memory ceilings 1..MaxMem (MB) are explored.
MaxMem == 2
\* Native stack depth (frames) beyond which a call traps with StackOverflow.
MaxCallDepth == 3
\* The ghost counters stop counting here (above anything a metered run reaches).
MaxIters == 24
MaxExecuted == 1200

\* The budget of the no-op scenario.
S1Budget == 1000000

\* Width, in bits, standing for the 32 bits of u32.
U32Bits == 10
\* The largest number of pages a guest asks memory.grow for.
MaxGrow == 17

\* Bytes of guest memory the host functions are given to write into.
MemLen == 12
\* The longest randomness request.
MaxRandLen == 258
\* How many host function calls follow one another.
MaxHostCalls == 2
\* The number of values of a u8.
ByteModulus == 256

\* The budget that lets every guest of a concurrent run finish, and one that
\* does not.
PairBudget == 40
PairShort == 19

\* The longest function body fed to a function-level pass on its own.
MaxFeed == 3

Modulus == 2 ^ U64Bits
Half == 2 ^ (U64Bits - 1)

\* An abstract guest value (the result of guest arithmetic, a local, a load).
AnyVal == Modulus

U32Modulus == 2 ^ U32Bits

\* ------------------------------------------------------- 64-bit conversions

\* `x as i64` of a u64 (cost.rs:122, cost.rs:466): same bit pattern, signed.
as_i64(u) == IF u >= Half THEN u - Modulus ELSE u

\* The u64 read back from an i64 global (cost.rs:505-511): same bit pattern.
as_u64(i) == IF i < 0 THEN i + Modulus ELSE i

\* Mutant: the comparison also holds for equal operands.
i64_lt_u_OrEqual(a, b) == IF as_u64(a) <= as_u64(b) THEN 1 ELSE 0

\* Mutant: the comparison reads its operands as signed.
i64_lt_u_Signed(a, b) == IF a < b THEN 1 ELSE 0

\* i64.lt_u: unsigned comparison of two i64 bit patterns, 1 or 0.
i64_lt_u(a, b) == IF as_u64(a) < as_u64(b) THEN 1 ELSE 0

\* Mutant: the operands of the subtraction are exchanged.
i64_sub_Swapped(a, b) == as_i64((as_u64(b) - as_u64(a) + Modulus) % Modulus)

\* i64.sub: wrapping subtraction.
i64_sub(a, b) == as_i64((as_u64(a) - as_u64(b) + Modulus) % Modulus)

\* ---------------------------------------------------------------- operators

\* A WebAssembly operator: its kind (the name its Debug form starts with), one
\* immediate, and a ghost mark telling an operator injected by the middleware
\* from one of the module's own (execution never reads the mark).
Op(name) == [op |-> name, arg |-> 0, inj |-> FALSE]
OpA(name, a) == [op |-> name, arg |-> a, inj |-> FALSE]
Inj(name, a) == [op |-> name, arg |-> a, inj |-> TRUE]

\* The static cost table (cost.rs:170-439), by operator kind.
CostZero == {"LocalGet", "Return", "Unreachable", "Nop", "Drop", "Try"}
CostOne == {"LocalSet", "LocalTee", "GlobalGet", "F32Load", "F64Load",
            "I32Load", "I64Load", "I32Load8S", "I32Load8U", "I32Load16S",
            "I32Load16U", "I64Load8S", "I64Load8U", "I64Load16S",
            "I64Load16U", "I64Load32S", "I64Load32U", "F32Const",
            "F64Const", "I32Const", "I64Const", "F32ConvertI32S",
            "F32ConvertI32U", "F32ConvertI64S", "F32ConvertI64U",
            "F64ConvertI32S", "F64ConvertI32U", "F64ConvertI64S",
            "F64ConvertI64U", "I32ReinterpretF32", "I64ReinterpretF64",
            "F32ReinterpretI32", "F64ReinterpretI64", "I32WrapI64",
            "I32Extend8S", "I32Extend16S", "I64Extend8S", "I64Extend16S",
            "I64Extend32S", "I64ExtendI32U", "I64ExtendI32S", "F32Trunc",
            "F64Trunc", "I32TruncF32S", "I32TruncF32U", "I32TruncF64S",
            "I32TruncF64U", "I32TruncSatF32S", "I32TruncSatF32U",
            "I32TruncSatF64S", "I32TruncSatF64U", "I64TruncF32S",
            "I64TruncF32U", "I64TruncF64S", "I64TruncF64U",
            "I64TruncSatF32S", "I64TruncSatF32U", "I64TruncSatF64S",
            "I64TruncSatF64U", "F32DemoteF64", "F64PromoteF32",
            "I32Popcnt", "I64Popcnt", "I32Clz", "I32Ctz", "I64Clz",
            "I64Ctz", "F32Neg", "F64Neg", "F32Abs", "F64Abs", "F32Ceil",
            "F64Ceil", "F32Floor", "F64Floor", "F32Nearest", "F64Nearest",
            "I32Eqz", "I64Eqz", "F32x4Splat", "F64x2Splat", "I16x8Splat",
            "I32x4Splat", "I64x2Splat", "I8x16Splat", "V128Not",
            "V128AnyTrue", "F32x4Abs", "F32x4Neg", "F32x4Sqrt",
            "F32x4Ceil", "F32x4Floor", "F32x4Trunc", "F32x4Nearest",
            "F64x2Abs", "F64x2Neg", "F64x2Sqrt", "F64x2Ceil", "F64x2Floor",
            "F64x2Trunc", "F64x2Nearest", "I8x16Abs", "I8x16Neg",
            "I8x16AllTrue", "I8x16Bitmask", "I8x16Popcnt", "I16x8Abs",
            "I16x8Neg", "I16x8AllTrue", "I16x8Bitmask", "I32x4Abs",
            "I32x4Neg", "I32x4AllTrue", "I32x4Bitmask", "I64x2Abs",
            "I64x2Neg", "I64x2AllTrue", "I64x2Bitmask",
            "F32x4ConvertI32x4S", "F32x4ConvertI32x4U",
            "I32x4TruncSatF32x4S", "I32x4TruncSatF32x4U",
            "F64x2ConvertLowI32x4S", "F64x2ConvertLowI32x4U",
            "I32x4TruncSatF64x2SZero", "I32x4TruncSatF64x2UZero",
            "I16x8ExtAddPairwiseI8x16S", "I16x8ExtAddPairwiseI8x16U",
            "I32x4ExtAddPairwiseI16x8S", "I32x4ExtAddPairwiseI16x8U",
            "I16x8ExtendHighI8x16S", "I16x8ExtendLowI8x16S",
            "I16x8ExtendHighI8x16U", "I16x8ExtendLowI8x16U",
            "I32x4ExtendHighI16x8S", "I32x4ExtendLowI16x8S",
            "I32x4ExtendHighI16x8U", "I32x4ExtendLowI16x8U",
            "I64x2ExtendHighI32x4S", "I64x2ExtendLowI32x4S",
            "I64x2ExtendHighI32x4U", "I64x2ExtendLowI32x4U",
            "F32x4DemoteF64x2Zero", "F64x2PromoteLowF32x4",
            "I32x4RelaxedTruncSatF32x4S", "I32x4RelaxedTruncSatF32x4U",
            "I32x4RelaxedTruncSatF64x2SZero",
            "I32x4RelaxedTruncSatF64x2UZero", "I32Add", "I32Sub", "I64Add",
            "I64Sub", "F32Add", "F32Sub", "F64Add", "F64Sub", "I32And",
            "I32Or", "I32Xor", "I32Shl", "I32ShrS", "I32ShrU", "I32Rotl",
            "I32Rotr", "I64And", "I64Or", "I64Xor", "I64Shl", "I64ShrS",
            "I64ShrU", "I64Rotl", "I64Rotr", "F32Copysign", "F64Copysign",
            "F32Min", "F32Max", "F64Min", "F64Max", "I32Eq", "I32Ne",
            "I32LtS", "I32LtU", "I32LeS", "I32LeU", "I32GtS", "I32GtU",
            "I32GeS", "I32GeU", "I64Eq", "I64Ne", "I64LtS", "I64LtU",
            "I64LeS", "I64LeU", "I64GtS", "I64GtU", "I64GeS", "I64GeU",
            "F32Eq", "F32Ne", "F32Lt", "F32Le", "F32Gt", "F32Ge", "F64Eq",
            "F64Ne", "F64Lt", "F64Le", "F64Gt", "F64Ge", "Block", "Loop",
            "If", "Else", "End", "Br", "BrIf", "BrTable", "Select",
            "MemoryGrow", "MemorySize"}
CostTwo == {"GlobalSet", "F32Store", "F64Store", "I32Store", "I64Store",
            "I32Store8", "I32Store16", "I64Store8", "I64Store16",
            "I64Store32", "F32Sqrt", "F64Sqrt", "I32Mul", "I64Mul",
            "F32Mul", "F64Mul"}
CostThree == {"I32DivS", "I32DivU", "I32RemS", "I32RemU", "I64DivS",
              "I64DivU", "I64RemS", "I64RemU", "F32Div", "F64Div"}
AtomicLoads == {"I32AtomicLoad", "I32AtomicLoad8U", "I32AtomicLoad16U",
                "I64AtomicLoad", "I64AtomicLoad8U", "I64AtomicLoad16U",
                "I64AtomicLoad32U"}
AtomicStores == {"I32AtomicStore", "I32AtomicStore8", "I32AtomicStore16",
                 "I64AtomicStore", "I64AtomicStore8", "I64AtomicStore16",
                 "I64AtomicStore32"}
BulkMemoryOps == {"MemoryInit", "MemoryCopy", "MemoryFill"}

\* Mutant: `end` is free.
OpCost_EndFree(name) ==
    CASE name \in CostZero \cup {"End"} -> 0
      [] name \in CostOne -> 1
      [] name \in CostTwo -> 2
      [] name \in CostThree -> 3
      [] name = "Call" -> 4
      [] name = "CallIndirect" -> 6
      [] OTHER -> 1000

\* Mutant: an operator the table does not list costs 1.
OpCost_NoPenalty(name) ==
    CASE name \in CostZero -> 0
      [] name \in CostTwo -> 2
      [] name \in CostThree -> 3
      [] name \in AtomicLoads -> 10 + 1
      [] name \in AtomicStores -> 10 + 2
      [] name \in BulkMemoryOps -> 6
      [] name = "Call" -> 4
      [] name = "CallIndirect" -> 6
      [] name = "DataDrop" -> 5
      [] name = "Throw" -> 100
      [] OTHER -> 1

\* The cost feed adds for an operator (cost.rs:170-439).
OpCost(name) ==
    CASE name \in CostZero -> 0
      [] name \in CostOne -> 1
      [] name \in CostTwo -> 2
      [] name \in CostThree -> 3
      [] name \in AtomicLoads -> 10 + 1
      [] name \in AtomicStores -> 10 + 2
      [] name \in BulkMemoryOps -> 6
      [] name = "Call" -> 4
      [] name = "CallIndirect" -> 6
      [] name = "DataDrop" -> 5
      [] name = "Throw" -> 100
      [] OTHER -> 1000

\* Mutant: `br` does not close a basic block.
Terminators_NoBr == {"Loop", "End", "Else", "BrTable", "BrIf", "Call",
                     "CallIndirect", "Return"}

\* The operators at which feed closes a basic block (cost.rs:451-461).
Terminators == {"Loop", "End", "Else", "Br", "BrTable", "BrIf", "Call",
                "CallIndirect", "Return"}

\* The twelve operators feed injects (cost.rs:463-479) for accumulated cost c.
\* Mutant: the refused block does not trap.
Prelude_NoTrap(gi, c) ==
    << Inj("GlobalGet", gi.remaining_points),
       Inj("I64Const", as_i64(c)),
       Inj("I64LtU", 0),
       Inj("If", 0),
       Inj("I32Const", 1),
       Inj("GlobalSet", gi.points_exhausted),
       Inj("Nop", 0),
       Inj("End", 0),
       Inj("GlobalGet", gi.remaining_points),
       Inj("I64Const", as_i64(c)),
       Inj("I64Sub", 0),
       Inj("GlobalSet", gi.remaining_points) >>

Prelude(gi, c) ==
    << Inj("GlobalGet", gi.remaining_points),
       Inj("I64Const", as_i64(c)),
       Inj("I64LtU", 0),
       Inj("If", 0),
       Inj("I32Const", 1),
       Inj("GlobalSet", gi.points_exhausted),
       Inj("Unreachable", 0),
       Inj("End", 0),
       Inj("GlobalGet", gi.remaining_points),
       Inj("I64Const", as_i64(c)),
       Inj("I64Sub", 0),
       Inj("GlobalSet", gi.remaining_points) >>

\* Mutant: the entry is set to one whether or not the name was counted before.
CountOp_Insert(counts, name) ==
    [n \in DOMAIN counts \cup {name} |-> IF n = name THEN 1 ELSE counts[n]]

\* operation_counts.entry(name).and_modify(+1).or_insert(1)  (cost.rs:441-448)
CountOp(counts, name) ==
    IF name \in DOMAIN counts
    THEN [counts EXCEPT ![name] = @ + 1]
    ELSE [n \in DOMAIN counts \cup {name} |->
            IF n = name THEN 1 ELSE counts[n]]

\* Mutant: the flush test comes before the operator's cost is added.
feed_TestBeforeAdd(self, operator) ==
    LET acc == self.accumulated_cost
        flush == operator.op \in Terminators /\ acc > 0
    IN [ global_indexes |-> self.global_indexes,
         accumulated_cost |-> IF flush THEN OpCost(operator.op)
                              ELSE acc + OpCost(operator.op),
         state |-> (IF flush
                    THEN self.state \o Prelude(self.global_indexes, acc)
                    ELSE self.state) \o << operator >>,
         operation_counts |-> CountOp(self.operation_counts, operator.op) ]

\* Mutant: the prelude is placed after the operator that triggered it.
feed_PreludeAfter(self, operator) ==
    LET acc == (self.accumulated_cost + OpCost(operator.op)) % Modulus
        flush == operator.op \in Terminators /\ acc > 0
    IN [ global_indexes |-> self.global_indexes,
         accumulated_cost |-> IF flush THEN 0 ELSE acc,
         state |-> self.state \o << operator >> \o
                   (IF flush THEN Prelude(self.global_indexes, acc)
                    ELSE << >>),
         operation_counts |-> CountOp(self.operation_counts, operator.op) ]

\* Mutant: after a prelude the terminator's own cost is kept for the next
\* block.
feed_CarryOver(self, operator) ==
    LET acc == (self.accumulated_cost + OpCost(operator.op)) % Modulus
        flush == operator.op \in Terminators /\ acc > 0
    IN [ global_indexes |-> self.global_indexes,
         accumulated_cost |-> IF flush THEN OpCost(operator.op) ELSE acc,
         state |-> (IF flush
                    THEN self.state \o Prelude(self.global_indexes, acc)
                    ELSE self.state) \o << operator >>,
         operation_counts |-> CountOp(self.operation_counts, operator.op) ]

\* Mutant: the accumulated cost is not reset after a prelude is emitted.
feed_NoReset(self, operator) ==
    LET acc == (self.accumulated_cost + OpCost(operator.op)) % Modulus
        flush == operator.op \in Terminators /\ acc > 0
    IN [ global_indexes |-> self.global_indexes,
         accumulated_cost |-> acc,
         state |-> (IF flush
                    THEN self.state \o Prelude(self.global_indexes, acc)
                    ELSE self.state) \o << operator >>,
         operation_counts |-> CountOp(self.operation_counts, operator.op) ]

\* FunctionCost::feed (cost.rs:160-489).  self is the function-level
\* middleware together with the reader state it writes to and the shared
\* histogram: [global_indexes, accumulated_cost, state, operation_counts].
feed(self, operator) ==
    LET acc == (self.accumulated_cost + OpCost(operator.op)) % Modulus
        counts == CountOp(self.operation_counts, operator.op)
        flush == operator.op \in Terminators /\ acc > 0
    IN [ global_indexes |-> self.global_indexes,
         accumulated_cost |-> IF flush THEN 0 ELSE acc,
         state |-> (IF flush
                    THEN self.state \o Prelude(self.global_indexes, acc)
                    ELSE self.state) \o << operator >>,
         operation_counts |-> counts ]

\* The compiler feeding a function body, operator by operator, in order.
RECURSIVE FeedAll(_, _, _)
FeedAll(self, body, i) ==
    IF i > Len(body) THEN self
    ELSE FeedAll(feed(self, body[i]), body, i + 1)

\* Cost::generate_function_middleware (cost.rs:99-105) applied to one body.
generate_function_middleware(gi, counts, body) ==
    FeedAll([ global_indexes |-> gi, accumulated_cost |-> 0,
              state |-> << >>, operation_counts |-> counts ], body, 1)


\* Mutant: an export is added even when the name is taken.
ExportsInsert_Keep(exports, name, index) ==
    exports \cup {[name |-> name, kind |-> "Global", index |-> index]}

\* module_info.exports.insert(name, ExportIndex::Global(index))
\* (cost.rs:124-127, 138-141): exports is a map keyed by name, so an export
\* already there under the name is replaced.
ExportsInsert(exports, name, index) ==
    { x \in exports : x.name # name }
       \cup {[name |-> name, kind |-> "Global", index |-> index]}

\* Some(CostGlobalIndexes(remaining, exhausted)) (cost.rs:143-146).
CostGlobalIndexes(remaining, exhausted) ==
    << [remaining_points |-> remaining, points_exhausted |-> exhausted] >>

\* Mutant: the pass does not look whether indexes are already recorded.
transform_module_info_Reuse(self, module_info) ==
    LET remaining_points_global_index == Len(module_info.globals)
        points_exhausted_global_index == Len(module_info.globals) + 1
    IN [ panic |-> FALSE,
         global_indexes |->
           << [remaining_points |-> remaining_points_global_index,
               points_exhausted |-> points_exhausted_global_index] >>,
         module_info |->
           [ globals |-> module_info.globals
                           \o << [ty |-> "I64", mut |-> "Var"],
                                 [ty |-> "I32", mut |-> "Var"] >>,
             global_initializers |-> module_info.global_initializers
                           \o << as_i64(self.budget), 0 >>,
             exports |-> module_info.exports ] ]

\* Cost::transform_module_info (cost.rs:108-147): the module with the two cost
\* globals appended and exported, and the indexes recorded.  A middleware whose
\* indexes are already set panics.
transform_module_info(self, module_info) ==
    IF self.global_indexes # << >>
    THEN [panic |-> TRUE, global_indexes |-> self.global_indexes,
          module_info |-> module_info]
    ELSE
      LET remaining_points_global_index == Len(module_info.globals)
          points_exhausted_global_index == Len(module_info.globals) + 1
      IN [ panic |-> FALSE,
           global_indexes |->
             CostGlobalIndexes(remaining_points_global_index,
                               points_exhausted_global_index),
           module_info |->
             [ globals |-> module_info.globals
                             \o << [ty |-> "I64", mut |-> "Var"],
                                   [ty |-> "I32", mut |-> "Var"] >>,
               global_initializers |-> module_info.global_initializers
                             \o << as_i64(self.budget), 0 >>,
               exports |->
                  ExportsInsert(
                     ExportsInsert(module_info.exports,
                                   "compilet_cost_remaining_points",
                                   remaining_points_global_index),
                     "compilet_cost_points_exhausted",
                     points_exhausted_global_index) ] ]

\* The function bodies of a module instrumented one after the other, the
\* histogram threaded through (Module::new driving the middleware, run.rs:65).
RECURSIVE CompileFunctions(_, _, _, _, _)
CompileFunctions(gi, counts, funcs, k, done) ==
    IF k > Len(funcs) THEN [code |-> done, operation_counts |-> counts]
    ELSE LET r == generate_function_middleware(gi, counts, funcs[k])
         IN CompileFunctions(gi, r.operation_counts, funcs, k + 1,
                             Append(done, r.state))

\* ----------------------------------------------------------------- programs

\* A guest module: whether its bytes decode, its imported host functions
\* (function indexes 1..n), its local function bodies (indexes after the
\* imports), which local function is exported as `_start` (0: none), whether a
\* memory is exported as `memory`, its declared minimum pages and its own
\* globals.  The memory declares no maximum (<< >>) and the module exports
\* none of its globals (<< >>: no export name) unless a program says so.
Module(decodes, imports, funcs, start, exportsMemory, minPages, nglobals) ==
    [ decodes |-> decodes, imports |-> imports, funcs |-> funcs,
      start |-> start, exportsMemory |-> exportsMemory,
      minPages |-> minPages, nglobals |-> nglobals, maxPages |-> << >>,
      globalExport |-> << >> ]

Plain(funcs) == Module(TRUE, << >>, funcs, 1, TRUE, 1, 0)

\* `_start` is only the final `end`.
P_empty == Plain(<< << Op("End") >> >>)

\* A loop that never exits (i64.add forever).
P_forever ==
    Plain(<< << Op("Loop"), OpA("I64Const", 1), OpA("I64Const", 2),
                Op("I64Add"), Op("Drop"), OpA("Br", 0), Op("End"),
                Op("End") >> >>)

\* The tightest loop: one branch per iteration.
P_spin == Plain(<< << Op("Loop"), OpA("Br", 0), Op("End"), Op("End") >> >>)

\* A loop left when the guest decides (the condition is guest data).
P_counted ==
    Plain(<< << Op("Loop"), OpA("I64Const", 1), OpA("I64Const", 2),
                Op("I64Add"), Op("Drop"), Op("LocalGet"), OpA("BrIf", 0),
                Op("End"), Op("End") >> >>)

\* The same with a heavier body, left through `return`.
P_counted2 ==
    Plain(<< << Op("Loop"), OpA("I32Const", 3), OpA("I32Const", 4),
                Op("I32Mul"), Op("Drop"), Op("LocalGet"), OpA("BrIf", 0),
                Op("Return"), Op("End"), Op("End") >> >>)

\* An `if` without else whose condition is guest data.
P_if ==
    Plain(<< << Op("LocalGet"), OpA("I32Const", 7), Op("I32Mul"), Op("If"),
                OpA("I32Const", 1), Op("Drop"), Op("End"), Op("End") >> >>)

\* An `if` with else.
P_ifelse ==
    Plain(<< << Op("LocalGet"), Op("If"), Op("Nop"), Op("Else"),
                OpA("I32Const", 1), Op("Drop"), Op("End"), Op("End") >> >>)

\* A block left through br_table, then a guest global written.
P_brtable ==
    Module(TRUE, << >>,
           << << Op("Block"), Op("Block"), Op("LocalGet"), OpA("BrTable", 1),
                 Op("End"), OpA("I32Const", 2), OpA("GlobalSet", 0),
                 Op("End"), OpA("GlobalGet", 0), Op("Drop"), Op("End") >> >>,
           1, TRUE, 1, 1)

\* The guest's own `unreachable`, after a block that costs 2.
P_unreachable ==
    Plain(<< << Op("Block"), Op("End"), Op("Unreachable"), Op("End") >> >>)

\* Operators that may trap, and one the cost table does not list (ref.null).
P_traps ==
    Plain(<< << Op("Block"), Op("End"),
                Op("LocalGet"), Op("I32Load"), Op("Drop"),
                Op("LocalGet"), Op("LocalGet"), Op("I32DivS"),
                Op("Drop"), Op("F32Const"), Op("I32TruncF32S"), Op("Drop"),
                Op("LocalGet"), Op("I32AtomicLoad"), Op("Drop"),
                Op("LocalGet"), OpA("CallIndirect", 2), Op("End") >>,
             << Op("End") >> >>)

P_penalty ==
    Plain(<< << Op("RefNull"), Op("Drop"), Op("End") >> >>)

\* Writes to stdout and stderr, then exits with a code that is guest data.
P_hello ==
    Module(TRUE, << "fd_write", "proc_exit" >>,
           << << OpA("I32Const", 1), OpA("Call", 1), Op("Drop"),
                 OpA("I32Const", 2), OpA("Call", 1), Op("Drop"),
                 Op("LocalGet"), OpA("Call", 2), Op("End") >> >>,
           1, TRUE, 1, 0)

\* Exits with code 0 right away; exits with code 1 right away.
P_exit0 ==
    Module(TRUE, << "proc_exit" >>,
           << << OpA("I32Const", 0), OpA("Call", 1), Op("End") >> >>,
           1, TRUE, 1, 0)

\* Calls host functions that end the invocation in the other ways.
P_host ==
    Module(TRUE, << "host_fn", "thread_exit", "thread_sleep" >>,
           << << OpA("Call", 1), Op("LocalGet"), Op("If"), OpA("Call", 2),
                 Op("Else"), OpA("Call", 3), Op("End"), Op("End") >> >>,
           1, TRUE, 1, 0)

\* `_start` calls itself.
P_recursive ==
    Plain(<< << OpA("Call", 1), Op("End") >> >>)

\* `_start` calls a helper that returns.
P_call ==
    Plain(<< << OpA("Call", 2), OpA("I32Const", 1), Op("Drop"), Op("End") >>,
             << Op("Nop"), Op("Return"), Op("End") >> >>)

\* Modules that do not get as far as `_start`.
P_garbage == Module(FALSE, << >>, << >>, 0, FALSE, 0, 0)
P_nostart == Module(TRUE, << >>, << << Op("End") >> >>, 0, TRUE, 1, 0)
P_nomemory == Module(TRUE, << >>, << << Op("End") >> >>, 1, FALSE, 0, 0)
P_bigmem == Module(TRUE, << >>, << << Op("End") >> >>, 1, TRUE, 100, 0)

\* `_start` grows a 15-page memory with no declared maximum: by one page,
\* by one more, by a number the guest computes, and then asks for its size.
P_grow ==
    Module(TRUE, << >>,
           << << OpA("I32Const", 1), Op("MemoryGrow"), Op("Drop"),
                 OpA("I32Const", 1), Op("MemoryGrow"), Op("Drop"),
                 Op("LocalGet"), Op("MemoryGrow"), Op("Drop"),
                 Op("MemorySize"), Op("Drop"), Op("End") >> >>,
           1, TRUE, 15, 0)

\* The same with a declared maximum of 16 pages.
P_growmax == [P_grow EXCEPT !.maxPages = << 16 >>]

\* A module that exports its own global under the name the middleware uses
\* for the remaining points.
P_shadow ==
    [ Module(TRUE, << >>,
             << << OpA("GlobalGet", 0), Op("Drop"), Op("End") >> >>,
             1, TRUE, 1, 1)
      EXCEPT !.globalExport = << "compilet_cost_remaining_points" >> ]

\* A module with one global of its own whose `_start` reads and writes the
\* global indexes after it: the ones the middleware will append.
P_cheat ==
    Module(TRUE, << >>,
           << << OpA("GlobalGet", 1), Op("Drop"),
                 OpA("I64Const", 1000), OpA("GlobalSet", 1),
                 OpA("I32Const", 0), OpA("GlobalSet", 2), Op("End") >> >>,
           1, TRUE, 1, 1)

Programs ==
    << P_empty, P_forever, P_spin, P_counted, P_counted2, P_if, P_ifelse,
       P_brtable, P_unreachable, P_traps, P_penalty, P_hello, P_exit0,
       P_host, P_recursive, P_call, P_garbage, P_nostart, P_nomemory,
       P_bigmem, P_grow, P_growmax, P_cheat, P_shadow >>

HasLoop(m) ==
    \E f \in 1..Len(m.funcs) : \E i \in 1..Len(m.funcs[f]) :
        m.funcs[f][i].op = "Loop"

\* The inputs sent to the guest's stdin: none, or two bytes.
Inputs == { << >>, << "4", "2" >> }

SmallBudgets == 0..MaxSmallBudget
BigBudgets == {1000, 1001, S1Budget, Half - 1, Half, Modulus - 1}

\* The requests explored: every program with every small budget and ceiling;
\* the big budgets and a non-empty input only for the programs without a loop
\* (a loop runs a budget down step by step, and no guest here reads stdin).
Requests ==
    { r \in [ wasm : 1..Len(Programs),
              budget : SmallBudgets \cup BigBudgets,
              mem : 1..MaxMem,
              input : Inputs ] :
        HasLoop(Programs[r.wasm]) =>
            (r.budget \in SmallBudgets /\ r.input = << >>) }


\* -------------------------------------------------------------------- state

VARIABLES
    request,           \* the RunRequest: [wasm, budget, mem, input]
    pc,                \* where run() is
    outcome,           \* what run() returned (or how it aborted)
    global_indexes,    \* metering.global_indexes: << >> (None) or << idx >>
    operation_counts,  \* metering.operation_counts
    module_info,       \* the compiled module's globals, initializers, exports
    code,              \* the instrumented function bodies
    globals,           \* the instance's globals, by index + 1
    pages,             \* the instance memory's size in pages
    app_memory,        \* the shared memory cell: << >> or << "memory" >>
    frames,            \* the guest's call stack: [fn, ip], innermost last
    stack,             \* the guest's operand stack
    startResult,       \* how start.call ended
    stdin_pipe, stdout_pipe, stderr_pipe,
    cost, max_mem,     \* run()'s locals before it returns
    executedCost,      \* ghost: static cost of the module's own operators executed
    justLeft,          \* ghost: the last step executed one of the module's own terminators
    iters,             \* ghost: how many of the module's own branches have executed
    tunables,          \* the page ceiling the tunables hold: << >> or << pages >>
    host_call,         \* the host function call being served: [fn, ...]
    host_ret,          \* what the last host function call returned
    guest_memory,      \* the bytes of the guest memory a host function sees
    host_calls,        \* how many host function calls were served
    target,            \* whether getrandom has an implementation for the build's target
    heap,              \* what the runs of a process allocated, by address
    runs,              \* the runs of a process, by thread: run()'s locals
    fed,               \* the operators a function-level pass has been fed
    fc,                \* that pass: FunctionCost and the reader state it fills
    modules,           \* the modules handed to one middleware: their ModuleInfo
    poisoned,          \* whether a panic poisoned the middleware's index mutex
    workers,           \* the function-level passes of a parallel compilation
    lock,              \* who holds the histogram's mutex (0: nobody)
    live,              \* the objects of run() not dropped yet, at its end
    writers,           \* the pipes whose writer end is still alive
    drained,           \* what read_to_end has read so far, by pipe
    specs,             \* the judge specs of a submission
    tasks,             \* the task spawned for each spec
    results,           \* the results run_specs has pushed
    judging            \* where run_specs is

\* What a run changes once its engine is built, and what it does not: the
\* tunables' ceiling and the state the host functions are studied on.
runVars == << request, pc, outcome, global_indexes, operation_counts,
              module_info, code, globals, pages, app_memory, frames, stack,
              startResult, stdin_pipe, stdout_pipe, stderr_pipe, cost,
              max_mem, executedCost, justLeft, iters >>
pairVars == << target, heap, runs >>
compileVars == << fed, fc, modules, poisoned, workers, lock >>
teardownVars == << live, writers, drained >>
judgeVars == << specs, tasks, results, judging >>
restVars == << teardownVars, judgeVars >>
otherVars == << tunables, host_call, host_ret, guest_memory, host_calls,
               pairVars, compileVars, restVars >>

vars == << runVars, otherVars >>

guestVars == << frames, stack, globals, startResult, stdout_pipe,
                stderr_pipe, executedCost, justLeft, iters >>

wasm == Programs[request.wasm]

\* RunError values (run.rs:37-44).
SpendingLimitExceeded(b) ==
    [kind |-> "RunError", variant |-> "SpendingLimitExceeded", n |-> b,
     msg |-> << >>]
MemoryLimitExceeded(m) ==
    [kind |-> "RunError", variant |-> "MemoryLimitExceeded", n |-> m,
     msg |-> << >>]
RuntimeError(m) ==
    [kind |-> "RunError", variant |-> "RuntimeError", n |-> 0, msg |-> m]
\* A compile-phase failure reported as a runtime error.
CompileError_AsRuntime(m) == RuntimeError(m)

CompileError(m) ==
    [kind |-> "RunError", variant |-> "CompileError", n |-> 0, msg |-> m]
IOError(m) ==
    [kind |-> "RunError", variant |-> "IOError", n |-> 0, msg |-> m]

\* Mutant: an abort reported as a compile error.
Panic_AsCompileError(where) ==
    [kind |-> "RunError", variant |-> "CompileError", n |-> 0,
     msg |-> << where >>]

\* A panic (expect, unwrap, unreachable!, todo!): run() returns nothing.
Panic(where) == [kind |-> "Panic", at |-> where]

NoStart == [kind |-> "none", code |-> "", inj |-> FALSE]

\* The module as the compiler first sees it: its own globals and the exports
\* the model needs.
OriginalModuleInfo(m) ==
    [ globals |-> [i \in 1..m.nglobals |-> [ty |-> "I32", mut |-> "Var"]],
      global_initializers |-> [i \in 1..m.nglobals |-> 6 + i],
      exports |->
         (IF m.exportsMemory
          THEN {[name |-> "memory", kind |-> "Memory", index |-> 0]}
          ELSE {})
         \cup
         (IF m.globalExport # << >>
          THEN {[name |-> m.globalExport[1], kind |-> "Global", index |-> 0]}
          ELSE {})
         \cup
         (IF m.start > 0
          THEN {[name |-> "_start", kind |-> "Function",
                 index |-> Len(m.imports) + m.start - 1]}
          ELSE {}) ]

\* The page ceiling handed to the tunables (run.rs:59): a u32 product, which
\* wraps where the build does not check the multiplication.
CeilingPages(mem) == (mem * 16) % U32Modulus

NoCall == [fn |-> "none"]
NoReturn == [result |-> "none"]

\* The end of run() and the judge are not being studied on their own.
TeardownIdle ==
    /\ live = {}
    /\ writers = {}
    /\ drained = << >>

JudgeIdle ==
    /\ specs = << >>
    /\ tasks = << >>
    /\ results = << >>
    /\ judging = "idle"

RestIdle == TeardownIdle /\ JudgeIdle

\* No middleware pass is being studied on its own.
CompileIdle ==
    /\ fed = << >>
    /\ fc = << >>
    /\ modules = << >>
    /\ poisoned = FALSE
    /\ workers = << >>
    /\ lock = 0

\* No process with several runs is being studied.
PairIdle ==
    /\ target = "none"
    /\ heap = << >>
    /\ runs = << >>

\* No host function is being studied.
HostIdle ==
    /\ PairIdle
    /\ RestIdle
    /\ CompileIdle
    /\ host_call = NoCall
    /\ host_ret = NoReturn
    /\ guest_memory = << >>
    /\ host_calls = 0

\* The state when run() has built the middleware (Cost::new, cost.rs:78-84),
\* the tunables and the engine (run.rs:58-64), and is about to compile:
\* nothing is compiled, instantiated, written or executed yet.
Fresh ==
    /\ outcome = [kind |-> "none"]
    /\ global_indexes = << >>
    /\ operation_counts = << >>
    /\ module_info = [globals |-> << >>, global_initializers |-> << >>,
                      exports |-> {}]
    /\ code = << >>
    /\ globals = << >>
    /\ pages = 0
    /\ app_memory = << >>
    /\ frames = << >>
    /\ stack = << >>
    /\ startResult = NoStart
    /\ stdin_pipe = << >>
    /\ stdout_pipe = << >>
    /\ stderr_pipe = << >>
    /\ cost = 0
    /\ max_mem = 0
    /\ executedCost = 0
    /\ justLeft = FALSE
    /\ iters = 0

Init ==
    /\ request \in Requests
    /\ pc = "compile"
    /\ Fresh
    /\ tunables = << CeilingPages(request.mem) >>
    /\ HostIdle

\* run() returns Err(e) or aborts: nothing else changes.
Fail(e) ==
    /\ outcome' = e
    /\ pc' = "done"

\* ------------------------------------------------- run(): before `_start`

\* Mutant: a validation that does not look at global indexes.
Validates_Lax(m) == TRUE

\* The validation Module::new (run.rs:65) performs on the module's bytes,
\* before any middleware has touched the module: an operator that names a
\* global names one of the module's own.
Validates(m) ==
    \A f \in 1..Len(m.funcs) : \A i \in 1..Len(m.funcs[f]) :
        m.funcs[f][i].op \in {"GlobalGet", "GlobalSet"} =>
           m.funcs[f][i].arg < m.nglobals

\* Module::new (run.rs:65): decode and validate, module-level pass,
\* function-level passes.
CompileModule ==
    /\ pc = "compile"
    /\ IF ~wasm.decodes \/ ~Validates(wasm)
       THEN /\ Fail(CompileError(<< "module" >>))
            /\ UNCHANGED << global_indexes, operation_counts, module_info,
                            code >>
       ELSE LET t == transform_module_info(
                        [budget |-> request.budget,
                         global_indexes |-> global_indexes],
                        OriginalModuleInfo(wasm))
                c == CompileFunctions(t.global_indexes[1], operation_counts,
                                      wasm.funcs, 1, << >>)
            IN IF t.panic
               THEN /\ Fail(Panic("transform_module_info"))
                    /\ UNCHANGED << global_indexes, operation_counts,
                                    module_info, code >>
               ELSE /\ global_indexes' = t.global_indexes
                    /\ module_info' = t.module_info
                    /\ code' = c.code
                    /\ operation_counts' = c.operation_counts
                    /\ pc' = "wasi_env"
                    /\ UNCHANGED outcome
    /\ UNCHANGED << request, globals, pages, app_memory, cost, max_mem,
                    stdin_pipe >>
    /\ UNCHANGED otherVars
    /\ UNCHANGED guestVars

\* A step of run() that either succeeds and moves on or returns the error.
Fallible(at, next, err) ==
    /\ pc = at
    /\ \/ pc' = next /\ UNCHANGED outcome
       \/ Fail(err)

\* WasiEnv::builder("app")...finalize (run.rs:73-78).
BuildWasiEnv ==
    /\ Fallible("wasi_env", "imports", CompileError(<< "wasi env" >>))
    /\ UNCHANGED << request, global_indexes, operation_counts, module_info,
                    code, globals, pages, app_memory, cost, max_mem,
                    stdin_pipe >>
    /\ UNCHANGED otherVars
    /\ UNCHANGED guestVars

\* sandbox.import_object and use_deterministic_time (run.rs:81-87).
BuildImports ==
    /\ Fallible("imports", "instantiate", CompileError(<< "imports" >>))
    /\ UNCHANGED << request, global_indexes, operation_counts, module_info,
                    code, globals, pages, app_memory, cost, max_mem,
                    stdin_pipe >>
    /\ UNCHANGED otherVars
    /\ UNCHANGED guestVars

\* LimitingTunables: the maximum the guest's memory gets is the smaller of its
\* declared maximum and the ceiling, the ceiling when it declares none.
AdjustedMaximum(declared_max, ceiling) ==
    IF declared_max = << >> THEN ceiling
    ELSE IF declared_max[1] < ceiling THEN declared_max[1] ELSE ceiling

\* Mutant: tunables that accept every declaration.
TunablesAccept_Always(minimum, ceiling) == TRUE

\* LimitingTunables refusing a memory whose declared minimum exceeds the
\* ceiling (memory.rs is not among the sources).
TunablesAccept(minimum, ceiling) == minimum <= ceiling

\* Instance::new (run.rs:90-91): the globals take their initializers.
Instantiate ==
    /\ pc = "instantiate"
    /\ \/ /\ TunablesAccept(wasm.minPages, tunables[1])
          /\ globals' = module_info.global_initializers
          /\ pages' = wasm.minPages
          /\ pc' = "app_memory"
          /\ UNCHANGED outcome
       \/ /\ ~TunablesAccept(wasm.minPages, tunables[1])
          /\ Fail(CompileError(<< "memory minimum exceeds the limit" >>))
          /\ UNCHANGED << globals, pages >>
       \/ /\ Fail(CompileError(<< "link" >>))
          /\ UNCHANGED << globals, pages >>
    /\ UNCHANGED otherVars
    /\ UNCHANGED << request, global_indexes, operation_counts, module_info,
                    code, app_memory, cost, max_mem, stdin_pipe, frames,
                    stack, startResult, stdout_pipe, stderr_pipe,
                    executedCost, justLeft, iters >>

\* Mutant: the run goes on without capturing the memory.
SetAppMemory_Skip ==
    /\ pc = "app_memory"
    /\ pc' = "initialize"
    /\ UNCHANGED << request, outcome, global_indexes, operation_counts,
                    module_info, code, globals, pages, app_memory, cost,
                    max_mem, stdin_pipe >>
    /\ UNCHANGED otherVars
    /\ UNCHANGED guestVars

\* *app_memory.lock() = Some(get_memory("memory").expect(..)) (run.rs:93-99).
SetAppMemory ==
    /\ pc = "app_memory"
    /\ IF \E e \in module_info.exports :
             e.name = "memory" /\ e.kind = "Memory"
       THEN /\ app_memory' = << "memory" >>
            /\ pc' = "initialize"
            /\ UNCHANGED outcome
       ELSE /\ Fail(Panic("should get memory"))
            /\ UNCHANGED app_memory
    /\ UNCHANGED << request, global_indexes, operation_counts, module_info,
                    code, globals, pages, cost, max_mem, stdin_pipe >>
    /\ UNCHANGED otherVars
    /\ UNCHANGED guestVars

\* sandbox.initialize (run.rs:101-103).
InitializeWasi ==
    /\ Fallible("initialize", "write_stdin", CompileError(<< "initialize" >>))
    /\ UNCHANGED << request, global_indexes, operation_counts, module_info,
                    code, globals, pages, app_memory, cost, max_mem,
                    stdin_pipe >>
    /\ UNCHANGED otherVars
    /\ UNCHANGED guestVars

\* Mutant: the input written without the newline.
WriteStdin_NoNewline ==
    /\ pc = "write_stdin"
    /\ stdin_pipe' = stdin_pipe \o request.input
    /\ pc' = "get_start"
    /\ UNCHANGED << request, outcome, global_indexes, operation_counts,
                    module_info, code, globals, pages, app_memory, cost,
                    max_mem >>
    /\ UNCHANGED otherVars
    /\ UNCHANGED guestVars

\* writeln!(stdin_sender, "{}", input) (run.rs:106).
WriteStdin ==
    /\ pc = "write_stdin"
    /\ \/ /\ stdin_pipe' = stdin_pipe \o request.input \o << "\n" >>
          /\ pc' = "get_start"
          /\ UNCHANGED outcome
       \/ /\ Fail(IOError(<< "stdin" >>))
          /\ UNCHANGED stdin_pipe
    /\ UNCHANGED << request, global_indexes, operation_counts, module_info,
                    code, globals, pages, app_memory, cost, max_mem >>
    /\ UNCHANGED otherVars
    /\ UNCHANGED guestVars

\* get_function("_start") and the start of start.call (run.rs:109-113).
GetStart ==
    /\ pc = "get_start"
    /\ IF \E e \in module_info.exports :
             e.name = "_start" /\ e.kind = "Function"
       THEN /\ frames' = << [fn |-> wasm.start, ip |-> 1] >>
            /\ pc' = "running"
            /\ UNCHANGED outcome
       ELSE /\ Fail(CompileError(<< "missing export _start" >>))
            /\ UNCHANGED frames
    /\ UNCHANGED otherVars
    /\ UNCHANGED << request, global_indexes, operation_counts, module_info,
                    code, globals, pages, app_memory, cost, max_mem,
                    stdin_pipe, stack, startResult, stdout_pipe, stderr_pipe,
                    executedCost, justLeft, iters >>


\* ---------------------------------------------------- the guest: structure

Openers == {"Block", "Loop", "If"}

\* The `end` closing the block whose body starts at j.
RECURSIVE MatchEnd(_, _, _)
MatchEnd(c, j, depth) ==
    IF j > Len(c) THEN Len(c)
    ELSE IF c[j].op \in Openers THEN MatchEnd(c, j + 1, depth + 1)
    ELSE IF c[j].op = "End"
         THEN IF depth = 0 THEN j ELSE MatchEnd(c, j + 1, depth - 1)
    ELSE MatchEnd(c, j + 1, depth)

\* The `else` of the `if` whose body starts at j, or 0 when it has none.
RECURSIVE MatchElse(_, _, _)
MatchElse(c, j, depth) ==
    IF j > Len(c) THEN 0
    ELSE IF c[j].op \in Openers THEN MatchElse(c, j + 1, depth + 1)
    ELSE IF c[j].op = "End"
         THEN IF depth = 0 THEN 0 ELSE MatchElse(c, j + 1, depth - 1)
    ELSE IF c[j].op = "Else" /\ depth = 0 THEN j
    ELSE MatchElse(c, j + 1, depth)

\* The opener of the d-th block enclosing position j + 1 (0: the function).
RECURSIVE Encloser(_, _, _, _)
Encloser(c, j, depth, d) ==
    IF j < 1 THEN 0
    ELSE IF c[j].op = "End" THEN Encloser(c, j - 1, depth + 1, d)
    ELSE IF c[j].op \in Openers
         THEN IF depth > 0 THEN Encloser(c, j - 1, depth - 1, d)
              ELSE IF d = 0 THEN j ELSE Encloser(c, j - 1, 0, d - 1)
    ELSE Encloser(c, j - 1, depth, d)

\* Where a branch at position i to label d continues: after the `loop`
\* header, after the block's `end`, or 0 for the function's end.
BranchTarget(c, i, d) ==
    LET o == Encloser(c, i - 1, 0, d)
    IN IF o = 0 THEN 0
       ELSE IF c[o].op = "Loop" THEN o + 1
       ELSE MatchEnd(c, o + 1, 0) + 1

\* ------------------------------------------------------ the guest: values

BinaryOps == {"I64Add", "I32Add", "I32Mul", "I32DivS", "I32DivU", "I64Sub",
              "I64LtU", "I32Store"}
UnaryOps == {"I32Load", "I32TruncF32S", "I32AtomicLoad", "I32Eqz"}
NullaryOps == {"LocalGet", "I32Const", "I64Const", "F32Const", "RefNull",
               "MemorySize"}
SimpleOps == BinaryOps \cup UnaryOps \cup NullaryOps
             \cup {"Drop", "LocalSet", "Nop", "Block", "Loop"}

Pops(name) ==
    CASE name \in BinaryOps -> 2
      [] name \in UnaryOps \cup {"Drop", "LocalSet"} -> 1
      [] OTHER -> 0

Pushes(name) ==
    name \in (BinaryOps \ {"I32Store"}) \cup UnaryOps \cup NullaryOps

\* What a simple operator leaves on the stack, given its operands a and b
\* (b on top).  Only the values the prelude computes are tracked exactly.
ResultOf(o, a, b) ==
    CASE o.op \in {"I32Const", "I64Const"} -> o.arg
      [] o.op = "MemorySize" -> pages
      [] o.op = "I64LtU" /\ a # AnyVal /\ b # AnyVal -> i64_lt_u(a, b)
      [] o.op = "I64Sub" /\ a # AnyVal /\ b # AnyVal -> i64_sub(a, b)
      [] OTHER -> AnyVal

\* The traps an operator may raise on operand b (the address, the divisor)
\* when b is guest data the model does not track.
TrapsOf(name, b) ==
    IF b # AnyVal THEN
       IF name \in {"I32DivS", "I32DivU"} /\ b = 0
       THEN {"IntegerDivisionByZero"} ELSE {}
    ELSE CASE name \in {"I32Load", "I32Store"} -> {"HeapAccessOutOfBounds"}
           [] name = "I32AtomicLoad" ->
                {"HeapAccessOutOfBounds", "HeapMisaligned", "UnalignedAtomic"}
           [] name = "I32DivS" -> {"IntegerDivisionByZero", "IntegerOverflow"}
           [] name = "I32DivU" -> {"IntegerDivisionByZero"}
           [] name = "I32TruncF32S" -> {"BadConversionToInteger"}
           [] OTHER -> {}

\* The Errno a WASI exit code converts to.
Errnos == {"Success", "Toobig", "Acces", "Badf", "Unknown"}
ErrnoOfExit(v) ==
    CASE v = AnyVal -> Errnos
      [] v = 0 -> {"Success"}
      [] v = 1 -> {"Toobig"}
      [] v = 2 -> {"Acces"}
      [] v = 8 -> {"Badf"}
      [] OTHER -> {"Unknown"}

\* ---------------------------------------------------- the guest: execution

Top == frames[Len(frames)]
Body == code[Top.fn]
Cur == Body[Top.ip]
Running == pc = "running"

Peek(k) == stack[Len(stack) - k]
Popped(n) == SubSeq(stack, 1, Len(stack) - n)

\* Ghost bookkeeping for the operator being executed.
Account(o) ==
    /\ executedCost' = IF o.inj \/ executedCost >= MaxExecuted
                       THEN executedCost
                       ELSE executedCost + OpCost(o.op)
    /\ justLeft' = (~o.inj /\ o.op \in Terminators)
    /\ iters' = IF ~o.inj /\ o.op \in {"Br", "BrIf", "BrTable"}
                   /\ iters < MaxIters
                THEN iters + 1 ELSE iters

Advance ==
    /\ frames' = [frames EXCEPT ![Len(frames)].ip = @ + 1]
    /\ UNCHANGED << pc, startResult >>

\* The current function returns: to its caller, or out of start.call.
ReturnFn ==
    IF Len(frames) = 1
    THEN /\ frames' = << >>
         /\ startResult' = [kind |-> "Ok", code |-> "", inj |-> FALSE]
         /\ pc' = "classify"
    ELSE /\ frames' = SubSeq(frames, 1, Len(frames) - 1)
         /\ UNCHANGED << pc, startResult >>

Jump(t) ==
    IF t = 0 \/ t > Len(Body) THEN ReturnFn
    ELSE /\ frames' = [frames EXCEPT ![Len(frames)].ip = t]
         /\ UNCHANGED << pc, startResult >>

\* start.call ends with a trap, or with an error raised by a host function.
EndStart(kind, c, o) ==
    /\ startResult' = [kind |-> kind, code |-> c, inj |-> o.inj]
    /\ pc' = "classify"
    /\ UNCHANGED frames

hostUnchanged == << request, outcome, global_indexes, operation_counts,
                    module_info, code, pages, app_memory, stdin_pipe, cost,
                    max_mem >>

ExecSimple ==
    /\ Running
    /\ Cur.op \in SimpleOps
    /\ LET o == Cur
           n == Pops(o.op)
           b == IF n >= 1 THEN Peek(0) ELSE 0
           a == IF n >= 2 THEN Peek(1) ELSE 0
       IN /\ Account(o)
          /\ \/ /\ ~(o.op \in {"I32DivS", "I32DivU"} /\ b = 0)
                /\ stack' = IF Pushes(o.op)
                            THEN Append(Popped(n), ResultOf(o, a, b))
                            ELSE Popped(n)
                /\ Advance
             \/ \E t \in TrapsOf(o.op, b) :
                   /\ stack' = Popped(n)
                   /\ EndStart("Trap", t, o)
    /\ UNCHANGED << globals, stdout_pipe, stderr_pipe >>
    /\ UNCHANGED otherVars
    /\ UNCHANGED hostUnchanged

\* Mutant: memory.grow that checks no maximum.
memory_grow_Unchecked(size, delta, maximum) ==
    [pages |-> size + delta, result |-> size]

\* memory.grow against the memory's maximum: the new size and the old size as
\* the result, or the size unchanged and -1 (as a u32).
memory_grow(size, delta, maximum) ==
    IF size + delta > maximum
    THEN [pages |-> size, result |-> U32Modulus - 1]
    ELSE [pages |-> size + delta, result |-> size]

\* The page counts a guest may ask for when the model does not track the
\* operand.
GrowDeltas == 0..MaxGrow

ExecMemoryGrow ==
    /\ Running
    /\ Cur.op = "MemoryGrow"
    /\ Account(Cur)
    /\ \E delta \in (IF Peek(0) = AnyVal THEN GrowDeltas ELSE {Peek(0)}) :
          LET r == memory_grow(pages, delta,
                               AdjustedMaximum(wasm.maxPages, tunables[1]))
          IN /\ pages' = r.pages
             /\ stack' = Append(Popped(1), r.result)
    /\ Advance
    /\ UNCHANGED << globals, stdout_pipe, stderr_pipe >>
    /\ UNCHANGED otherVars
    /\ UNCHANGED << request, outcome, global_indexes, operation_counts,
                    module_info, code, app_memory, stdin_pipe, cost,
                    max_mem >>

ExecGlobalGet ==
    /\ Running
    /\ Cur.op = "GlobalGet"
    /\ Account(Cur)
    /\ stack' = Append(stack, globals[Cur.arg + 1])
    /\ Advance
    /\ UNCHANGED << globals, stdout_pipe, stderr_pipe >>
    /\ UNCHANGED otherVars
    /\ UNCHANGED hostUnchanged

ExecGlobalSet ==
    /\ Running
    /\ Cur.op = "GlobalSet"
    /\ Account(Cur)
    /\ globals' = [globals EXCEPT ![Cur.arg + 1] = Peek(0)]
    /\ stack' = Popped(1)
    /\ Advance
    /\ UNCHANGED << stdout_pipe, stderr_pipe >>
    /\ UNCHANGED otherVars
    /\ UNCHANGED hostUnchanged

ExecIf ==
    /\ Running
    /\ Cur.op = "If"
    /\ Account(Cur)
    /\ stack' = Popped(1)
    /\ \/ /\ Peek(0) # 0
          /\ Advance
       \/ /\ Peek(0) \in {0, AnyVal}
          /\ LET e == MatchElse(Body, Top.ip + 1, 0)
             IN Jump(IF e > 0 THEN e + 1
                     ELSE MatchEnd(Body, Top.ip + 1, 0) + 1)
    /\ UNCHANGED << globals, stdout_pipe, stderr_pipe >>
    /\ UNCHANGED otherVars
    /\ UNCHANGED hostUnchanged

\* `else` reached from the then-branch: continue after the `if`'s `end`.
ExecElse ==
    /\ Running
    /\ Cur.op = "Else"
    /\ Account(Cur)
    /\ Jump(MatchEnd(Body, Top.ip + 1, 0) + 1)
    /\ UNCHANGED << stack, globals, stdout_pipe, stderr_pipe >>
    /\ UNCHANGED otherVars
    /\ UNCHANGED hostUnchanged

ExecEnd ==
    /\ Running
    /\ Cur.op = "End"
    /\ Account(Cur)
    /\ IF Top.ip = Len(Body) THEN ReturnFn ELSE Advance
    /\ UNCHANGED << stack, globals, stdout_pipe, stderr_pipe >>
    /\ UNCHANGED otherVars
    /\ UNCHANGED hostUnchanged

ExecBr ==
    /\ Running
    /\ Cur.op = "Br"
    /\ Account(Cur)
    /\ Jump(BranchTarget(Body, Top.ip, Cur.arg))
    /\ UNCHANGED << stack, globals, stdout_pipe, stderr_pipe >>
    /\ UNCHANGED otherVars
    /\ UNCHANGED hostUnchanged

ExecBrIf ==
    /\ Running
    /\ Cur.op = "BrIf"
    /\ Account(Cur)
    /\ stack' = Popped(1)
    /\ \/ /\ Peek(0) # 0
          /\ Jump(BranchTarget(Body, Top.ip, Cur.arg))
       \/ /\ Peek(0) \in {0, AnyVal}
          /\ Advance
    /\ UNCHANGED << globals, stdout_pipe, stderr_pipe >>
    /\ UNCHANGED otherVars
    /\ UNCHANGED hostUnchanged

\* br_table with targets 0..arg: the index is guest data.
ExecBrTable ==
    /\ Running
    /\ Cur.op = "BrTable"
    /\ Account(Cur)
    /\ stack' = Popped(1)
    /\ \E d \in 0..Cur.arg : Jump(BranchTarget(Body, Top.ip, d))
    /\ UNCHANGED << globals, stdout_pipe, stderr_pipe >>
    /\ UNCHANGED otherVars
    /\ UNCHANGED hostUnchanged

ExecReturn ==
    /\ Running
    /\ Cur.op = "Return"
    /\ Account(Cur)
    /\ ReturnFn
    /\ UNCHANGED << stack, globals, stdout_pipe, stderr_pipe >>
    /\ UNCHANGED otherVars
    /\ UNCHANGED hostUnchanged

ExecUnreachable ==
    /\ Running
    /\ Cur.op = "Unreachable"
    /\ Account(Cur)
    /\ EndStart("Trap", "UnreachableCodeReached", Cur)
    /\ UNCHANGED << stack, globals, stdout_pipe, stderr_pipe >>
    /\ UNCHANGED otherVars
    /\ UNCHANGED hostUnchanged

\* A call of a local function: a new frame, or a stack overflow.
CallLocal(o, k) ==
    /\ IF Len(frames) >= MaxCallDepth
       THEN EndStart("Trap", "StackOverflow", o)
       ELSE /\ frames' = Append([frames EXCEPT ![Len(frames)].ip = @ + 1],
                                [fn |-> k, ip |-> 1])
            /\ UNCHANGED << pc, startResult >>
    /\ UNCHANGED << stdout_pipe, stderr_pipe >>

\* A call of an imported host function, by what the function does to the
\* invocation: it returns, or it raises an error that ends start.call.
CallHost(o, name, stk) ==
    CASE name = "fd_write" ->
           /\ stack' = Append(SubSeq(stk, 1, Len(stk) - 1), AnyVal)
           /\ IF stk[Len(stk)] = 1
              THEN /\ stdout_pipe' = Append(stdout_pipe, "o")
                   /\ UNCHANGED stderr_pipe
              ELSE /\ stderr_pipe' = Append(stderr_pipe, "e")
                   /\ UNCHANGED stdout_pipe
           /\ Advance
      [] name = "proc_exit" ->
           /\ stack' = SubSeq(stk, 1, Len(stk) - 1)
           /\ \E e \in ErrnoOfExit(stk[Len(stk)]) : EndStart("Exit", e, o)
           /\ UNCHANGED << stdout_pipe, stderr_pipe >>
      [] name = "thread_exit" ->
           /\ stack' = stk
           /\ EndStart("ThreadExit", "", o)
           /\ UNCHANGED << stdout_pipe, stderr_pipe >>
      [] name = "thread_sleep" ->
           /\ stack' = stk
           /\ EndStart("DeepSleep", "", o)
           /\ UNCHANGED << stdout_pipe, stderr_pipe >>
      [] OTHER ->
           /\ stack' = stk
           /\ \/ Advance
              \/ EndStart("UnknownWasiVersion", "", o)
              \/ EndStart("Other", "", o)
           /\ UNCHANGED << stdout_pipe, stderr_pipe >>

CallFunction(o, stk) ==
    IF o.arg <= Len(wasm.imports)
    THEN CallHost(o, wasm.imports[o.arg], stk)
    ELSE /\ stack' = stk
         /\ CallLocal(o, o.arg - Len(wasm.imports))

ExecCall ==
    /\ Running
    /\ Cur.op = "Call"
    /\ Account(Cur)
    /\ CallFunction(Cur, stack)
    /\ UNCHANGED globals
    /\ UNCHANGED otherVars
    /\ UNCHANGED hostUnchanged

\* call_indirect: the table index is guest data.
ExecCallIndirect ==
    /\ Running
    /\ Cur.op = "CallIndirect"
    /\ Account(Cur)
    /\ \/ CallFunction(Cur, Popped(1))
       \/ \E t \in {"TableAccessOutOfBounds", "IndirectCallToNull",
                    "BadSignature"} :
             /\ stack' = Popped(1)
             /\ EndStart("Trap", t, Cur)
             /\ UNCHANGED << stdout_pipe, stderr_pipe >>
    /\ UNCHANGED globals
    /\ UNCHANGED otherVars
    /\ UNCHANGED hostUnchanged

GuestStep ==
    \/ ExecSimple \/ ExecGlobalGet \/ ExecGlobalSet \/ ExecIf \/ ExecElse
    \/ ExecEnd \/ ExecBr \/ ExecBrIf \/ ExecBrTable \/ ExecReturn
    \/ ExecUnreachable \/ ExecCall \/ ExecCallIndirect \/ ExecMemoryGrow


\* ------------------------------------------------- run(): after `_start`

\* The value of the global exported under a name.
ExportedGlobal(name) ==
    LET e == CHOOSE x \in module_info.exports : x.name = name
    IN globals[e.index + 1]

\* Mutant: exhaustion is inferred from no points remaining.
get_remaining_points_ByPoints ==
    LET points == as_u64(ExportedGlobal("compilet_cost_remaining_points"))
    IN IF points = 0
       THEN [tag |-> "Exhausted", points |-> 0]
       ELSE [tag |-> "Remaining", points |-> points]

\* get_remaining_points (cost.rs:492-514).
get_remaining_points ==
    LET exhausted == ExportedGlobal("compilet_cost_points_exhausted")
        points == as_u64(ExportedGlobal("compilet_cost_remaining_points"))
    IN IF exhausted > 0
       THEN [tag |-> "Exhausted", points |-> 0]
       ELSE [tag |-> "Remaining", points |-> points]

\* Mutant: the messages of the two alignment traps are exchanged.
TrapMessage_Swapped(trap) ==
    CASE trap = "HeapMisaligned" -> << "Unaligned atomic" >>
      [] trap = "UnalignedAtomic" -> << "Heap misaligned" >>
      [] OTHER -> << trap >>

\* The message run() gives each trap code other than UnreachableCodeReached
\* (run.rs:118-152, 166-168).
TrapMessage(trap) ==
    CASE trap = "StackOverflow" -> << "Stack overflow" >>
      [] trap = "HeapAccessOutOfBounds" -> << "Heap access out of bounds" >>
      [] trap = "HeapMisaligned" -> << "Heap misaligned" >>
      [] trap = "TableAccessOutOfBounds" -> << "Table access out of bounds" >>
      [] trap = "IndirectCallToNull" -> << "Indirect call to null" >>
      [] trap = "BadSignature" -> << "Bad signature" >>
      [] trap = "IntegerOverflow" -> << "Integer overflow" >>
      [] trap = "IntegerDivisionByZero" -> << "Integer division by zero" >>
      [] trap = "BadConversionToInteger" -> << "Bad conversion to integer" >>
      [] trap = "UnalignedAtomic" -> << "Unaligned atomic" >>

Continue == [kind |-> "continue"]

\* Mutant: SpendingLimitExceeded carries what remains, not the budget.
classify_trap_CarriesRemaining(trap, remaining_budget, budget) ==
    IF trap = "UnreachableCodeReached"
    THEN IF remaining_budget.tag = "Remaining"
         THEN RuntimeError(<< "Unreachable code reached." >>)
         ELSE SpendingLimitExceeded(
                 as_u64(ExportedGlobal("compilet_cost_remaining_points")))
    ELSE RuntimeError(TrapMessage(trap))

\* The arm of run() for a trap (run.rs:116-170).
classify_trap(trap, remaining_budget, budget) ==
    IF trap = "UnreachableCodeReached"
    THEN IF remaining_budget.tag = "Remaining"
         THEN RuntimeError(<< "Unreachable code reached." >>)
         ELSE SpendingLimitExceeded(budget)
    ELSE RuntimeError(TrapMessage(trap))

\* Mutant: errno Toobig is not told apart from the other errnos.
classify_host_error_NoToobig(r, mem) ==
    CASE r.kind = "Exit" ->
           (CASE r.code = "Success" -> Continue
              [] OTHER -> RuntimeError(<< "Exited with errno", r.code >>))
      [] r.kind = "UnknownWasiVersion" ->
           RuntimeError(<< "Unknown WASI version" >>)
      [] r.kind = "ThreadExit" -> Panic("todo")
      [] r.kind = "DeepSleep" -> Panic("todo")
      [] OTHER -> RuntimeError(<< "host error" >>)

\* The arm of run() for an error that is not a trap (run.rs:172-199).
classify_host_error(r, mem) ==
    CASE r.kind = "Exit" ->
           (CASE r.code = "Success" -> Continue
              [] r.code = "Toobig" -> MemoryLimitExceeded(mem)
              [] OTHER -> RuntimeError(<< "Exited with errno", r.code >>))
      [] r.kind = "UnknownWasiVersion" ->
           RuntimeError(<< "Unknown WASI version" >>)
      [] r.kind = "ThreadExit" -> Panic("todo")
      [] r.kind = "DeepSleep" -> Panic("todo")
      [] OTHER -> RuntimeError(<< "host error" >>)

\* Mutant: the arm of one trap code does not return.
classify_start_FallsThrough(r, remaining_budget, budget, mem) ==
    CASE r.kind = "Ok" -> Continue
      [] r.kind = "Trap" /\ r.code = "UnalignedAtomic" -> Continue
      [] r.kind = "Trap" /\ r.code # "UnalignedAtomic" ->
           classify_trap(r.code, remaining_budget, budget)
      [] OTHER -> classify_host_error(r, mem)

\* The match on start.call's result (run.rs:113-201).
classify_start(r, remaining_budget, budget, mem) ==
    CASE r.kind = "Ok" -> Continue
      [] r.kind = "Trap" -> classify_trap(r.code, remaining_budget, budget)
      [] OTHER -> classify_host_error(r, mem)

Classify ==
    /\ pc = "classify"
    /\ LET c == classify_start(startResult, get_remaining_points,
                               request.budget, request.mem)
       IN IF c = Continue
          THEN pc' = "on_exit" /\ UNCHANGED outcome
          ELSE Fail(c)
    /\ UNCHANGED << request, global_indexes, operation_counts, module_info,
                    code, pages, app_memory, stdin_pipe, cost, max_mem >>
    /\ UNCHANGED otherVars
    /\ UNCHANGED guestVars

\* sandbox.on_exit (run.rs:202).
OnExit ==
    /\ pc = "on_exit"
    /\ pc' = "read_cost"
    /\ UNCHANGED << request, outcome, global_indexes, operation_counts,
                    module_info, code, pages, app_memory, stdin_pipe, cost,
                    max_mem >>
    /\ UNCHANGED otherVars
    /\ UNCHANGED guestVars

\* Mutant: what remains is reported as the cost.
RunCost_ReportsRemaining(budget, remaining) == remaining

\* budget - remaining in u64 arithmetic (run.rs:207).
RunCost(budget, remaining) == (budget - remaining + Modulus) % Modulus

\* The instruction count (run.rs:204-209).
ReadCost ==
    /\ pc = "read_cost"
    /\ LET remaining_budget == get_remaining_points
       IN IF remaining_budget.tag = "Remaining"
          THEN /\ cost' = RunCost(request.budget, remaining_budget.points)
               /\ pc' = "read_memory"
               /\ UNCHANGED outcome
          ELSE /\ Fail(Panic("unreachable"))
               /\ UNCHANGED cost
    /\ UNCHANGED << request, global_indexes, operation_counts, module_info,
                    code, pages, app_memory, stdin_pipe, max_mem >>
    /\ UNCHANGED otherVars
    /\ UNCHANGED guestVars

\* Mutant: the pages rounded down to whole MB.
MemoryMB_Floor(minimum) == minimum \div 16

\* (memory.minimum.0 + 15) / 16 in u32 (run.rs:218).
MemoryMB(minimum) == ((minimum + 15) % U32Modulus) \div 16

\* The memory usage (run.rs:211-222) and the drops (run.rs:224-227).
ReadMemory ==
    /\ pc = "read_memory"
    /\ IF MemoryMB(pages) > request.mem
       THEN /\ Fail(Panic("unreachable"))
            /\ UNCHANGED max_mem
       ELSE /\ max_mem' = MemoryMB(pages)
            /\ pc' = "drain_stdout"
            /\ UNCHANGED outcome
    /\ UNCHANGED << request, global_indexes, operation_counts, module_info,
                    code, pages, app_memory, stdin_pipe, cost >>
    /\ UNCHANGED otherVars
    /\ UNCHANGED guestVars

\* stdout_reader.read_to_end (run.rs:230-236).
DrainStdout ==
    /\ Fallible("drain_stdout", "drain_stderr", IOError(<< "stdout" >>))
    /\ UNCHANGED << request, global_indexes, operation_counts, module_info,
                    code, globals, pages, app_memory, cost, max_mem,
                    stdin_pipe >>
    /\ UNCHANGED otherVars
    /\ UNCHANGED guestVars

\* stderr_reader.read_to_end (run.rs:237-243).
DrainStderr ==
    /\ Fallible("drain_stderr", "return", IOError(<< "stderr" >>))
    /\ UNCHANGED << request, global_indexes, operation_counts, module_info,
                    code, globals, pages, app_memory, cost, max_mem,
                    stdin_pipe >>
    /\ UNCHANGED otherVars
    /\ UNCHANGED guestVars

\* The histogram snapshot and Ok(RunResult { .. }) (run.rs:245-253).
ReturnOk ==
    /\ pc = "return"
    /\ outcome' = [ kind |-> "RunResult", cost |-> cost, memory |-> max_mem,
                    stdout |-> stdout_pipe, stderr |-> stderr_pipe,
                    operations |-> operation_counts ]
    /\ pc' = "done"
    /\ UNCHANGED << request, global_indexes, operation_counts, module_info,
                    code, globals, pages, app_memory, cost, max_mem,
                    stdin_pipe >>
    /\ UNCHANGED otherVars
    /\ UNCHANGED << frames, stack, startResult, stdout_pipe, stderr_pipe,
                    executedCost, justLeft, iters >>

\* --------------------------------------------------------- specifications

Next ==
    \/ CompileModule \/ BuildWasiEnv \/ BuildImports \/ Instantiate
    \/ SetAppMemory \/ InitializeWasi \/ WriteStdin \/ GetStart
    \/ GuestStep
    \/ Classify \/ OnExit \/ ReadCost \/ ReadMemory \/ DrainStdout
    \/ DrainStderr \/ ReturnOk

Spec == Init /\ [][Next]_vars

\* start.call (run.rs:114) and the rest of run() after it are one synchronous
\* call on one thread: once `_start` is entered, whenever the guest or the host
\* code after it can take a step, it takes one.
AfterStart ==
    \/ GuestStep
    \/ Classify \/ OnExit \/ ReadCost \/ ReadMemory \/ DrainStdout
    \/ DrainStderr \/ ReturnOk

FairSpec == Spec /\ WF_vars(AfterStart)


\* ------------------------------------------------------ the host functions

\* Mutant: a u8 addition that saturates.
wrapping_add_Saturating(a, b) ==
    IF a + b >= ByteModulus THEN ByteModulus - 1 ELSE a + b

\* u8::wrapping_add (random.rs:7).
wrapping_add(a, b) == (a + b) % ByteModulus

\* One iteration of the loop of deterministic_random (random.rs:5-8), at
\* position t.i of the buffer; nothing once the buffer is exhausted.
FillByte(t) ==
    IF t.i > Len(t.buf) THEN t
    ELSE [ buf |-> [t.buf EXCEPT ![t.i] = t.state], i |-> t.i + 1,
           state |-> wrapping_add(t.state, 1) ]

\* The loop run to the end of the buffer, eight iterations at a time.
RECURSIVE FillLoop(_)
FillLoop(t) ==
    IF t.i > Len(t.buf) THEN t.buf
    ELSE FillLoop(FillByte(FillByte(FillByte(FillByte(
                  FillByte(FillByte(FillByte(FillByte(t)))))))))

\* deterministic_random (random.rs:3-10): state starts at 0, the buffer is
\* filled, and Ok(()) is returned.
deterministic_random(buf) ==
    [result |-> "Ok", buf |-> FillLoop([buf |-> buf, i |-> 1, state |-> 0])]

\* The n little-endian bytes of v.
RECURSIVE to_le_bytes(_, _)
to_le_bytes(v, n) ==
    IF n = 0 THEN << >>
    ELSE << v % ByteModulus >> \o to_le_bytes(v \div ByteModulus, n - 1)

\* Mutant: a write that stores the bytes of the value that still fit.
WasmPtrWrite_Partial(view, offset, bytes) ==
    [ok |-> offset + Len(bytes) <= Len(view),
     view |-> [i \in 1..Len(view) |->
                 IF i > offset /\ i <= offset + Len(bytes)
                 THEN bytes[i - offset] ELSE view[i]]]

\* WasmPtr::write: the bytes stored at the offset when they lie inside the
\* memory view, an error and nothing stored otherwise.
WasmPtrWrite(view, offset, bytes) ==
    IF offset + Len(bytes) > Len(view)
    THEN [ok |-> FALSE, view |-> view]
    ELSE [ok |-> TRUE,
          view |-> [i \in 1..Len(view) |->
                      IF i > offset /\ i <= offset + Len(bytes)
                      THEN bytes[i - offset] ELSE view[i]]]

\* Mutant: a clock that reports an error when the write fails.
clock_time_get_32_Checked(memory, view, _clock_id, _precision, _result) ==
    IF memory = << >>
    THEN [panic |-> TRUE, view |-> view, result |-> "none", errno |-> 0]
    ELSE LET w == WasmPtrWrite(view, _result, to_le_bytes(0, 8))
         IN [panic |-> FALSE, view |-> w.view, result |-> "Ok",
             errno |-> IF w.ok THEN 0 ELSE 21]

\* clock_time_get_32 (deterministic_time.rs:11-21): the shared memory cell is
\* unwrapped (a panic when it is still None), the u64 0 is written at the
\* result pointer with the outcome of the write ignored, and Ok(0) returned.
clock_time_get_32(memory, view, _clock_id, _precision, _result) ==
    IF memory = << >>
    THEN [panic |-> TRUE, view |-> view, result |-> "none", errno |-> 0]
    ELSE [panic |-> FALSE,
          view |-> WasmPtrWrite(view, _result, to_le_bytes(0, 8)).view,
          result |-> "Ok", errno |-> 0]

\* clock_time_get_64 (deterministic_time.rs:23-33): the same with a 64-bit
\* pointer.
clock_time_get_64(memory, view, _clock_id, _precision, _result) ==
    IF memory = << >>
    THEN [panic |-> TRUE, view |-> view, result |-> "none", errno |-> 0]
    ELSE [panic |-> FALSE,
          view |-> WasmPtrWrite(view, _result, to_le_bytes(0, 8)).view,
          result |-> "Ok", errno |-> 0]

\* use_deterministic_time (deterministic_time.rs:35-72): the function defined
\* as clock_time_get in each namespace.
ClockNamespaces == {"wasi", "wasi_unstable", "wasi_snapshot_preview1",
                    "wasix_32v1", "wasix_64v1"}
use_deterministic_time(ns) ==
    CASE ns = "wasi" -> "clock_time_get_32"
      [] ns = "wasi_unstable" -> "clock_time_get_32"
      [] ns = "wasi_snapshot_preview1" -> "clock_time_get_32"
      [] ns = "wasix_32v1" -> "clock_time_get_32"
      [] ns = "wasix_64v1" -> "clock_time_get_64"

\* The arguments the guest calls with.
ClockIds == {0, 1}
Precisions == {0, 1000}
Pointers == {0, 1, MemLen - 8, MemLen - 7, MemLen, MemLen + 1}
RandLens == {0, 1, 2, ByteModulus - 1, ByteModulus, ByteModulus + 1,
             MaxRandLen}

\* The host functions are reachable as soon as the imports are built, so
\* from within Instance::new on (a module's start function runs there), when
\* the shared memory cell is still None.
HostInit ==
    /\ request \in [wasm : {1}, budget : {S1Budget}, mem : {1},
                    input : {<< >>}]
    /\ pc = "host"
    /\ Fresh
    /\ tunables = << CeilingPages(request.mem) >>
    /\ host_call = NoCall
    /\ host_ret = NoReturn
    /\ guest_memory = [i \in 1..MemLen |-> ByteModulus - 1]
    /\ host_calls = 0
    /\ PairIdle
    /\ RestIdle
    /\ CompileIdle

hostCallUnchanged ==
    << request, global_indexes, operation_counts, module_info, code, globals,
       pages, cost, max_mem, stdin_pipe, frames, stack, startResult,
       stdout_pipe, stderr_pipe, executedCost, justLeft, iters, tunables,
       pairVars, compileVars, restVars >>

\* *app_memory.lock().unwrap() = Some(memory) (run.rs:93-99).
CaptureMemory ==
    /\ pc = "host"
    /\ app_memory = << >>
    /\ app_memory' = << "memory" >>
    /\ UNCHANGED << pc, outcome, host_call, host_ret, guest_memory,
                    host_calls >>
    /\ UNCHANGED hostCallUnchanged

\* The guest calls clock_time_get of some namespace.
ClockTimeGet ==
    /\ pc = "host"
    /\ host_calls < MaxHostCalls
    /\ \E ns \in ClockNamespaces, id \in ClockIds, precision \in Precisions,
          ptr \in Pointers :
          LET r == IF use_deterministic_time(ns) = "clock_time_get_64"
                   THEN clock_time_get_64(app_memory, guest_memory, id,
                                          precision, ptr)
                   ELSE clock_time_get_32(app_memory, guest_memory, id,
                                          precision, ptr)
          IN /\ host_call' = [fn |-> "clock_time_get", ns |-> ns,
                              clock_id |-> id, precision |-> precision,
                              result |-> ptr, before |-> guest_memory]
             /\ guest_memory' = r.view
             /\ IF r.panic
                THEN /\ Fail(Panic("unwrap on None"))
                     /\ host_ret' = NoReturn
                ELSE /\ host_ret' = [result |-> r.result, errno |-> r.errno]
                     /\ UNCHANGED << pc, outcome >>
    /\ host_calls' = host_calls + 1
    /\ UNCHANGED app_memory
    /\ UNCHANGED hostCallUnchanged

\* A request for n random bytes that getrandom hands to the registered
\* function (lib.rs:11): deterministic_random is called on a buffer of that
\* length, whatever it held.
RandomGet ==
    /\ pc = "host"
    /\ host_calls < MaxHostCalls
    /\ \E n \in RandLens, held \in {0, ByteModulus - 1} :
          /\ host_call' = [fn |-> "getrandom", n |-> n]
          /\ host_ret' = deterministic_random([i \in 1..n |-> held])
    /\ host_calls' = host_calls + 1
    /\ UNCHANGED << pc, outcome, app_memory, guest_memory >>
    /\ UNCHANGED hostCallUnchanged

HostNext == CaptureMemory \/ ClockTimeGet \/ RandomGet

HostSpec == HostInit /\ [][HostNext]_vars

\* ------------------------------------------- one function-level pass alone

\* The operators a body is drawn from: every terminator, operators that end
\* no block, operators of several costs, one the table does not list, and
\* some with another immediate.
FeedKinds ==
    {"Loop", "End", "Else", "Br", "BrTable", "BrIf", "Call", "CallIndirect",
     "Return", "If", "Block", "Throw", "Try", "Drop", "Nop", "Unreachable",
     "LocalGet", "GlobalSet", "I32AtomicStore8", "RefNull"}
FeedOps ==
    { Op(k) : k \in FeedKinds }
    \cup { OpA(k, 1) : k \in {"Br", "Call", "GlobalSet"} }

\* The index pairs a module-level pass may have recorded.
FeedIndexes ==
    { [remaining_points |-> n, points_exhausted |-> n + 1] : n \in {0, 2} }

\* A function-level pass as generate_function_middleware creates it
\* (cost.rs:99-105), before the compiler feeds it the first operator.
FeedInit ==
    /\ request \in [wasm : {1}, budget : {S1Budget}, mem : {1},
                    input : {<< >>}]
    /\ pc = "feed"
    /\ Fresh
    /\ tunables = << CeilingPages(request.mem) >>
    /\ host_call = NoCall
    /\ host_ret = NoReturn
    /\ guest_memory = << >>
    /\ host_calls = 0
    /\ PairIdle
    /\ RestIdle
    /\ fed = << >>
    /\ \E gi \in FeedIndexes :
          fc = [ global_indexes |-> gi, accumulated_cost |-> 0,
                 state |-> << >>, operation_counts |-> << >> ]
    /\ modules = << >>
    /\ poisoned = FALSE
    /\ workers = << >>
    /\ lock = 0

\* The compiler feeds the pass the next operator of the body.
Feed ==
    /\ pc = "feed"
    /\ Len(fed) < MaxFeed
    /\ \E o \in FeedOps :
          /\ fed' = Append(fed, o)
          /\ fc' = feed(fc, o)
    /\ UNCHANGED << runVars, tunables, host_call, host_ret, guest_memory,
                    host_calls, pairVars, modules, poisoned, workers, lock,
                    restVars >>

FeedNext == Feed

FeedSpec == FeedInit /\ [][FeedNext]_vars

\* The threads of a process: each executes one run() call, one pass of a
\* middleware, or compiles one function.
Threads == {1, 2}

\* ------------------------------------- one middleware, several modules

\* A Cost handed to callers that may run a module-level pass on a module of
\* their own each, one after the other or at once, and may ask for
\* function-level passes at any time.  modules[t] is caller t's module:
\* which program, its ModuleInfo and where the caller is: "idle", "locked"
\* (inside transform_module_info, holding the guard of global_indexes),
\* "done", "panicked" (the module-level pass panicked) or "aborted" (the
\* request for a function-level pass panicked).
MaxPasses == 2

\* The modules handed over: no global, a memory only, one exported global.
MiddlewareModules ==
    { i \in 1..Len(Programs) : Programs[i] \in {P_empty, P_nomemory, P_shadow} }

\* Box::new(FunctionCost { .. }) (cost.rs:100-104).
FunctionCost(indexes, counts) ==
    [ global_indexes |-> indexes, accumulated_cost |-> 0,
      state |-> << >>, operation_counts |-> counts ]

IndexesLocked == \E t \in Threads : modules[t].at = "locked"

MiddlewareInit ==
    /\ request \in [wasm : {1}, budget : {S1Budget, Half}, mem : {1},
                    input : {<< >>}]
    /\ pc = "middleware"
    /\ Fresh
    /\ tunables = << CeilingPages(request.mem) >>
    /\ host_call = NoCall
    /\ host_ret = NoReturn
    /\ guest_memory = << >>
    /\ host_calls = 0
    /\ PairIdle
    /\ RestIdle
    /\ fed = << >>
    /\ fc = << >>
    /\ \E w \in [Threads -> MiddlewareModules] :
          modules = [ t \in Threads |->
                        [ wasm |-> w[t],
                          info |-> OriginalModuleInfo(Programs[w[t]]),
                          at |-> "idle" ] ]
    /\ poisoned = FALSE
    /\ workers = << >>
    /\ lock = 0

middlewareUnchanged ==
    << request, pc, outcome, operation_counts, module_info, code, globals,
       pages, app_memory, frames, stack, startResult, stdin_pipe,
       stdout_pipe, stderr_pipe, cost, max_mem, executedCost, justLeft,
       iters, tunables, host_call, host_ret, guest_memory, host_calls,
       pairVars, fed, fc, lock, restVars >>

\* self.global_indexes.lock().unwrap() (cost.rs:109): the caller waits while
\* another holds the guard, and panics when the mutex is poisoned.
LockIndexes(t) ==
    /\ pc = "middleware"
    /\ modules[t].at = "idle"
    /\ ~IndexesLocked
    /\ modules' = [modules EXCEPT ![t].at =
                      IF poisoned THEN "panicked" ELSE "locked"]
    /\ UNCHANGED << global_indexes, poisoned, workers, middlewareUnchanged >>

\* The rest of transform_module_info (cost.rs:111-147), the guard held until
\* it returns or panics; a panic with the guard held poisons the mutex.
TransformModuleInfo(t) ==
    /\ pc = "middleware"
    /\ modules[t].at = "locked"
    /\ LET r == transform_module_info(
                    [budget |-> request.budget,
                     global_indexes |-> global_indexes],
                    modules[t].info)
       IN IF r.panic
          THEN /\ modules' = [modules EXCEPT ![t].at = "panicked"]
               /\ poisoned' = TRUE
               /\ UNCHANGED global_indexes
          ELSE /\ modules' = [modules EXCEPT ![t].at = "done",
                                              ![t].info = r.module_info]
               /\ global_indexes' = r.global_indexes
               /\ UNCHANGED poisoned
    /\ UNCHANGED << workers, middlewareUnchanged >>

\* Cost::generate_function_middleware (cost.rs:99-105) asked for by caller t:
\* lock().unwrap() panics on a poisoned mutex, and .clone().unwrap() panics,
\* the guard still held, when no indexes are recorded.
GenerateFunctionMiddleware(t) ==
    /\ pc = "middleware"
    /\ modules[t].at \in {"idle", "done"}
    /\ ~IndexesLocked
    /\ Len(workers) < MaxPasses
    /\ IF poisoned
       THEN /\ modules' = [modules EXCEPT ![t].at = "aborted"]
            /\ UNCHANGED << poisoned, workers >>
       ELSE IF global_indexes = << >>
       THEN /\ modules' = [modules EXCEPT ![t].at = "aborted"]
            /\ poisoned' = TRUE
            /\ UNCHANGED workers
       ELSE /\ workers' = Append(workers,
                                 FunctionCost(global_indexes[1],
                                              operation_counts))
            /\ UNCHANGED << modules, poisoned >>
    /\ UNCHANGED << global_indexes, middlewareUnchanged >>

MiddlewareNext ==
    \E t \in Threads :
       \/ LockIndexes(t) \/ TransformModuleInfo(t)
       \/ GenerateFunctionMiddleware(t)

MiddlewareSpec == MiddlewareInit /\ [][MiddlewareNext]_vars

\* ------------------------------------ the functions compiled in parallel

\* The compiler translating the functions of one module on a thread each:
\* every thread feeds its own FunctionCost the operators of its function, and
\* the passes share the histogram behind its mutex.  workers[t] is thread
\* t's function body, the position of the operator being fed, its pass, the
\* count it read, and where it is in feed: "lock" (before cost.rs:444),
\* "load", "store" (the entry update, cost.rs:445-448), "rest" (the rest
\* of feed, the guard alive until it returns) or "done".
ParallelBodies ==
    { << Op("Nop"), Op("End") >>,
      << OpA("Call", 1), Op("End") >>,
      << Op("Drop"), Op("Drop"), Op("End") >> }

\* Mutant: the mutex lets a thread in while another holds it.
MutexFree_Always(holder) == TRUE

\* Whether Mutex::lock returns now.
MutexFree(holder) == holder = 0

ParallelInit ==
    /\ request \in [wasm : {1}, budget : {S1Budget}, mem : {1},
                    input : {<< >>}]
    /\ pc = "parallel"
    /\ Fresh
    /\ tunables = << CeilingPages(request.mem) >>
    /\ host_call = NoCall
    /\ host_ret = NoReturn
    /\ guest_memory = << >>
    /\ host_calls = 0
    /\ PairIdle
    /\ RestIdle
    /\ fed = << >>
    /\ fc = << >>
    /\ modules = << >>
    /\ poisoned = FALSE
    /\ \E b \in [Threads -> ParallelBodies] :
          workers = [ t \in Threads |->
                        [ body |-> b[t], i |-> 1, at |-> "lock", seen |-> 0,
                          fc |-> FunctionCost(
                                    [remaining_points |-> 0,
                                     points_exhausted |-> 1], << >>) ] ]
    /\ lock = 0

parallelUnchanged ==
    << request, pc, outcome, global_indexes, module_info, code, globals,
       pages, app_memory, frames, stack, startResult, stdin_pipe,
       stdout_pipe, stderr_pipe, cost, max_mem, executedCost, justLeft,
       iters, tunables, host_call, host_ret, guest_memory, host_calls,
       pairVars, fed, fc, modules, poisoned,
       restVars >>

\* The operator thread t is feeding.
Feeding(t) == workers[t].body[workers[t].i]

\* feed up to self.operation_counts.lock().unwrap() (cost.rs:160-444): the
\* thread waits until the mutex is free.
LockCounts(t) ==
    /\ pc = "parallel"
    /\ workers[t].at = "lock"
    /\ MutexFree(lock)
    /\ lock' = t
    /\ workers' = [workers EXCEPT ![t].at = "load"]
    /\ UNCHANGED << operation_counts, parallelUnchanged >>

\* entry(name): the counter of the operator's name is looked up
\* (cost.rs:445-446).
LoadCount(t) ==
    /\ pc = "parallel"
    /\ workers[t].at = "load"
    /\ workers' = [workers EXCEPT
                      ![t].at = "store",
                      ![t].seen = IF Feeding(t).op \in DOMAIN operation_counts
                                  THEN operation_counts[Feeding(t).op]
                                  ELSE 0]
    /\ UNCHANGED << operation_counts, lock, parallelUnchanged >>

\* and_modify(+1).or_insert(1): the counter is written (cost.rs:447-448).
StoreCount(t) ==
    /\ pc = "parallel"
    /\ workers[t].at = "store"
    /\ operation_counts' =
          [ n \in DOMAIN operation_counts \cup {Feeding(t).op} |->
              IF n = Feeding(t).op THEN workers[t].seen + 1
              ELSE operation_counts[n] ]
    /\ workers' = [workers EXCEPT ![t].at = "rest"]
    /\ UNCHANGED << lock, parallelUnchanged >>

\* The rest of feed (cost.rs:450-488): the prelude and the operator go to
\* the thread's own reader state, and the guard is dropped on return.  What
\* the call did to the thread's own pass is what feed does to it.
EndFeed(t) ==
    /\ pc = "parallel"
    /\ workers[t].at = "rest"
    /\ workers' = [workers EXCEPT
                      ![t].fc = [feed(@, Feeding(t)) EXCEPT
                                   !.operation_counts = << >>],
                      ![t].i = @ + 1,
                      ![t].at = IF workers[t].i = Len(workers[t].body)
                                THEN "done" ELSE "lock"]
    /\ lock' = IF lock = t THEN 0 ELSE lock
    /\ UNCHANGED << operation_counts, parallelUnchanged >>

Worker(t) == LockCounts(t) \/ LoadCount(t) \/ StoreCount(t) \/ EndFeed(t)

ParallelNext == \E t \in Threads : Worker(t)

\* Every thread of the compiler that can go on does so in the end.
ParallelSpec ==
    /\ ParallelInit
    /\ [][ParallelNext]_vars
    /\ \A t \in Threads : WF_vars(Worker(t))

\* ------------------------------------- the tunables for every memory limit

\* Every memory limit a request can carry, with the no-op module.
TunablesRequests ==
    [ wasm : {1}, budget : {S1Budget}, mem : 1..(U32Modulus - 1),
      input : {<< >>} ]

\* run() about to build the tunables (run.rs:58).
TunablesInit ==
    /\ request \in TunablesRequests
    /\ pc = "tunables"
    /\ Fresh
    /\ tunables = << >>
    /\ HostIdle

\* LimitingTunables::new(base, Pages(mem * 16)) (run.rs:59).  mem * 16 is a
\* u32 product: where it does not fit, a build that checks arithmetic panics
\* and a build that does not hands over the wrapped value.
BuildTunables ==
    /\ pc = "tunables"
    /\ \/ /\ tunables' = << CeilingPages(request.mem) >>
          /\ pc' = "compile"
          /\ UNCHANGED outcome
       \/ /\ request.mem * 16 >= U32Modulus
          /\ Fail(Panic("attempt to multiply with overflow"))
          /\ UNCHANGED tunables
    /\ UNCHANGED << request, global_indexes, operation_counts, module_info,
                    code, globals, pages, app_memory, cost, max_mem,
                    stdin_pipe >>
    /\ UNCHANGED guestVars
    /\ UNCHANGED << host_call, host_ret, guest_memory, host_calls,
                    pairVars, compileVars, restVars >>

TunablesNext == BuildTunables

TunablesSpec == TunablesInit /\ [][TunablesNext]_vars

\* ------------------------------------------------------ the end of run()

\* run() from sandbox.on_exit to its return (run.rs:202-253), statement by
\* statement, after a start invocation that completed normally.  live holds
\* the locals sandbox, instance, module and store until each is dropped;
\* stdout_pipe and stderr_pipe hold the bytes written and not read yet, and
\* drained what read_to_end has collected.  The writer ends of stdout and
\* stderr were moved into the WASI environment (run.rs:73-77), which the
\* store holds and the sandbox refers to: a writer end is alive at most as
\* long as one of the two is, and on_exit may close it earlier.
DropOrder == << "sandbox", "instance", "module", "store" >>
WriterHolders == {"sandbox", "store"}

\* The module whose run is ending, and what it may have spent and written.
TeardownProgram == CHOOSE i \in 1..Len(Programs) : Programs[i] = P_hello
TeardownSpent == {0, 23, S1Budget}
TeardownPages == {1, 16}
TeardownStdout == { << >>, << "o" >>, << "o", "o", "o" >> }
TeardownStderr == { << >>, << "e", "e" >> }

TeardownInit ==
    /\ request \in [wasm : {TeardownProgram}, budget : {S1Budget}, mem : {1},
                    input : {<< >>}]
    /\ pc = "on_exit"
    /\ outcome = [kind |-> "none"]
    /\ LET t == transform_module_info(
                    [budget |-> request.budget, global_indexes |-> << >>],
                    OriginalModuleInfo(wasm))
           c == CompileFunctions(t.global_indexes[1], << >>, wasm.funcs, 1,
                                 << >>)
       IN /\ global_indexes = t.global_indexes
          /\ module_info = t.module_info
          /\ code = c.code
          /\ operation_counts = c.operation_counts
          /\ \E spent \in TeardownSpent :
                globals =
                   [t.module_info.global_initializers EXCEPT
                      ![t.global_indexes[1].remaining_points + 1] =
                         as_i64(request.budget - spent)]
    /\ pages \in TeardownPages
    /\ app_memory = << "memory" >>
    /\ frames = << >>
    /\ stack = << >>
    /\ startResult = [kind |-> "Ok", code |-> "", inj |-> FALSE]
    /\ stdin_pipe = << >>
    /\ stdout_pipe \in TeardownStdout
    /\ stderr_pipe \in TeardownStderr
    /\ cost = 0
    /\ max_mem = 0
    /\ executedCost = 0
    /\ justLeft = FALSE
    /\ iters = 0
    /\ tunables = << CeilingPages(request.mem) >>
    /\ host_call = NoCall
    /\ host_ret = NoReturn
    /\ guest_memory = << >>
    /\ host_calls = 0
    /\ PairIdle
    /\ CompileIdle
    /\ JudgeIdle
    /\ live = {"sandbox", "instance", "module", "store"}
    /\ writers = {"stdout", "stderr"}
    /\ drained = [stdout |-> << >>, stderr |-> << >>]

teardownUnchanged ==
    << request, global_indexes, operation_counts, module_info, code, globals,
       pages, app_memory, frames, stack, startResult, stdin_pipe,
       executedCost, justLeft, iters, tunables, host_call, host_ret,
       guest_memory, host_calls, pairVars, compileVars, judgeVars >>

\* run() returns or unwinds: its locals are dropped.
Leave(result) ==
    /\ outcome' = result
    /\ pc' = "done"
    /\ live' = {}
    /\ writers' = {}

\* sandbox.on_exit(&mut store, None) (run.rs:202): the WASI environment
\* cleans up, which closes its files or leaves them to the drop.
SignalExit ==
    /\ pc = "on_exit"
    /\ pc' = "read_cost"
    /\ writers' \in {writers, {}}
    /\ UNCHANGED << outcome, cost, max_mem, stdout_pipe, stderr_pipe, live,
                    drained, teardownUnchanged >>

\* The instruction count (run.rs:204-209).
CheckCost ==
    /\ pc = "read_cost"
    /\ LET remaining_budget == get_remaining_points
       IN IF remaining_budget.tag = "Remaining"
          THEN /\ cost' = RunCost(request.budget, remaining_budget.points)
               /\ pc' = "read_memory"
               /\ UNCHANGED << outcome, live, writers >>
          ELSE /\ Leave(Panic("unreachable"))
               /\ UNCHANGED cost
    /\ UNCHANGED << max_mem, stdout_pipe, stderr_pipe, drained,
                    teardownUnchanged >>

\* The memory usage (run.rs:211-222).
CheckMemory ==
    /\ pc = "read_memory"
    /\ IF MemoryMB(pages) > request.mem
       THEN /\ Leave(Panic("unreachable"))
            /\ UNCHANGED max_mem
       ELSE /\ max_mem' = MemoryMB(pages)
            /\ pc' = "drop_sandbox"
            /\ UNCHANGED << outcome, live, writers >>
    /\ UNCHANGED << cost, stdout_pipe, stderr_pipe, drained,
                    teardownUnchanged >>

\* drop(x): x is gone, and with the last holder of the writer ends so are
\* they.
Drop(x, next) ==
    /\ live' = live \ {x}
    /\ writers' = IF (live \ {x}) \cap WriterHolders = {} THEN {}
                  ELSE writers
    /\ pc' = next
    /\ UNCHANGED << outcome, cost, max_mem, stdout_pipe, stderr_pipe,
                    drained, teardownUnchanged >>

\* Mutant: the store is kept until run() returns.
DropStore_Kept ==
    /\ pc = "drop_store"
    /\ pc' = "drain_stdout"
    /\ UNCHANGED << outcome, cost, max_mem, stdout_pipe, stderr_pipe, live,
                    writers, drained, teardownUnchanged >>

\* drop(sandbox); drop(instance); drop(module); drop(store) (run.rs:224-227).
DropSandbox == pc = "drop_sandbox" /\ Drop("sandbox", "drop_instance")
DropInstance == pc = "drop_instance" /\ Drop("instance", "drop_module")
DropModule == pc = "drop_module" /\ Drop("module", "drop_store")
DropStore == pc = "drop_store" /\ Drop("store", "drain_stdout")

\* One round of reader.read_to_end: some of the bytes waiting are taken; with
\* none waiting the call returns once no writer end is alive and waits
\* otherwise; a read may fail.
ReadToEnd(pipe, waiting, next, err) ==
    \/ /\ waiting # << >>
       /\ \E k \in {1, Len(waiting)} :
             /\ drained' = [drained EXCEPT
                              ![pipe] = @ \o SubSeq(waiting, 1, k)]
             /\ IF pipe = "stdout"
                THEN /\ stdout_pipe' = SubSeq(waiting, k + 1, Len(waiting))
                     /\ UNCHANGED stderr_pipe
                ELSE /\ stderr_pipe' = SubSeq(waiting, k + 1, Len(waiting))
                     /\ UNCHANGED stdout_pipe
       /\ UNCHANGED << pc, outcome, live, writers >>
    \/ /\ waiting = << >>
       /\ pipe \notin writers
       /\ pc' = next
       /\ UNCHANGED << outcome, live, writers, drained, stdout_pipe,
                       stderr_pipe >>
    \/ /\ Leave(err)
       /\ UNCHANGED << drained, stdout_pipe, stderr_pipe >>

\* stdout_reader.read_to_end (run.rs:230-236).
ReadStdout ==
    /\ pc = "drain_stdout"
    /\ ReadToEnd("stdout", stdout_pipe, "drain_stderr",
                 IOError(<< "stdout" >>))
    /\ UNCHANGED << cost, max_mem, teardownUnchanged >>

\* stderr_reader.read_to_end (run.rs:237-243).
ReadStderr ==
    /\ pc = "drain_stderr"
    /\ ReadToEnd("stderr", stderr_pipe, "return", IOError(<< "stderr" >>))
    /\ UNCHANGED << cost, max_mem, teardownUnchanged >>

\* The histogram snapshot and Ok(RunResult { .. }) (run.rs:245-253).
ReturnResult ==
    /\ pc = "return"
    /\ Leave([ kind |-> "RunResult", cost |-> cost, memory |-> max_mem,
               stdout |-> drained.stdout, stderr |-> drained.stderr,
               operations |-> operation_counts ])
    /\ UNCHANGED << cost, max_mem, stdout_pipe, stderr_pipe, drained,
                    teardownUnchanged >>

TeardownNext ==
    \/ SignalExit \/ CheckCost \/ CheckMemory
    \/ DropSandbox \/ DropInstance \/ DropModule \/ DropStore
    \/ ReadStdout \/ ReadStderr \/ ReturnResult

\* run() is a thread that goes on whenever it can.
TeardownSpec ==
    TeardownInit /\ [][TeardownNext]_vars /\ WF_vars(TeardownNext)

\* ---------------------------------------------------------------- the judge

\* run_specs (server/judge.rs:104-219) with the io_fast judger
\* (judger/io_fast/mod.rs): one task per spec, spawned in submission order and
\* running concurrently, and a loop that awaits the tasks in that order and
\* builds one JudgeResult from what each returns.  Text is a sequence of
\* bytes.
MaxSpecs == 2
MaxCostLimit == 1000000000
MaxMemoryLimit == 2048

None == << >>
Some(v) == << v >>
Ok(v) == [ok |-> TRUE, v |-> v]
Err(e) == [ok |-> FALSE, v |-> e]

\* sha256::digest, as a function that tells any two texts apart.
digest(text) == << "sha256", text >>

\* The guest printed "ok" and a newline, "no", or a byte no UTF-8 text has.
Text_ok == << 111, 107 >>
JudgeOutputs == { << 111, 107, 32, 10 >>, << 110, 111 >>, << 255 >> }

FastIOJudgeSpec(input, input_url, cost_limit, memory_limit) ==
    [ input |-> input, input_url |-> input_url,
      output_hash |-> digest(Text_ok), cost |-> cost_limit,
      memory |-> memory_limit ]

\* Specs within and beyond each limit, with an inline input, a URL, both or
\* neither.
JudgeSpecs ==
    { FastIOJudgeSpec(Some("inline"), None, MaxCostLimit, MaxMemoryLimit),
      FastIOJudgeSpec(None, Some("url"), MaxCostLimit, MaxMemoryLimit),
      FastIOJudgeSpec(Some("inline"), None, MaxCostLimit + 1, MaxMemoryLimit),
      FastIOJudgeSpec(Some("inline"), Some("url"), MaxCostLimit,
                      MaxMemoryLimit + 1),
      FastIOJudgeSpec(None, None, MaxCostLimit, MaxMemoryLimit),
      FastIOJudgeSpec(None, Some("url"), MaxCostLimit + 1,
                      MaxMemoryLimit + 1) }

\* Mutant: the limits are not checked.
check_spec_NoLimit(self) ==
    IF self.input = None /\ self.input_url = None
    THEN Err("Must provide either input or input_url")
    ELSE Ok("")

\* FastIOJudgeSpec::check_spec (io_fast/mod.rs:27-47).
check_spec(self) ==
    IF self.cost > MaxCostLimit THEN Err("Invalid cost limit")
    ELSE IF self.memory > MaxMemoryLimit THEN Err("Invalid memory limit")
    ELSE IF self.input = None /\ self.input_url = None
    THEN Err("Must provide either input or input_url")
    ELSE Ok("")

\* FastIOJudgeSpec::make_input (io_fast/mod.rs:49-84): what it may return;
\* the request to the URL succeeds or fails in one of two places.  With
\* neither input nor URL it returns nothing: unreachable!() panics.
make_input(self) ==
    IF self.input # None THEN { Ok(self.input[1]) }
    ELSE IF self.input_url # None
    THEN { Ok("fetched"), Err("Error fetching input"),
           Err("Error reading input") }
    ELSE { }

\* str::trim_end and str::trim on ASCII text.
IsSpace(b) == b \in {9, 10, 11, 12, 13, 32}
RECURSIVE trim_end(_)
trim_end(text) ==
    IF text # << >> /\ IsSpace(text[Len(text)])
    THEN trim_end(SubSeq(text, 1, Len(text) - 1))
    ELSE text
RECURSIVE trim_start(_)
trim_start(text) ==
    IF text # << >> /\ IsSpace(text[1]) THEN trim_start(Tail(text)) ELSE text
trim(text) == trim_start(trim_end(text))

\* output.stdout.lines().map(|l| l.trim_end()).collect().join("\n")
\* (io_fast/mod.rs:88-93): every line loses its trailing white space.
RECURSIVE JoinTrimmedLines(_, _)
JoinTrimmedLines(text, line) ==
    IF text = << >> THEN trim_end(line)
    ELSE IF text[1] = 10
         THEN IF Tail(text) = << >> THEN trim_end(line)
              ELSE trim_end(line) \o << 10 >>
                      \o JoinTrimmedLines(Tail(text), << >>)
         ELSE JoinTrimmedLines(Tail(text), Append(line, text[1]))

\* FastIOJudgeSpec::judge_output (io_fast/mod.rs:86-106).
judge_output(self, stdout) ==
    LET output_hash == digest(trim(JoinTrimmedLines(stdout, << >>)))
    IN IF output_hash # self.output_hash
       THEN Err("Output hash mismatch")
       ELSE Ok("")

\* String::from_utf8: whether the bytes are well-formed UTF-8.
Continuation(b) == b \in 128..191
RECURSIVE ValidUtf8(_)
ValidUtf8(b) ==
    LET n == Len(b)
        cont(i) == i <= n /\ Continuation(b[i])
        rest(k) == ValidUtf8(SubSeq(b, k + 1, n))
    IN IF n = 0 THEN TRUE
       ELSE IF b[1] < 128 THEN rest(1)
       ELSE IF b[1] \in 194..223 THEN cont(2) /\ rest(2)
       ELSE IF b[1] = 224
            THEN n >= 2 /\ b[2] \in 160..191 /\ cont(3) /\ rest(3)
       ELSE IF b[1] = 237
            THEN n >= 2 /\ b[2] \in 128..159 /\ cont(3) /\ rest(3)
       ELSE IF b[1] \in 225..239 THEN cont(2) /\ cont(3) /\ rest(3)
       ELSE IF b[1] = 240
            THEN n >= 2 /\ b[2] \in 144..191 /\ cont(3) /\ cont(4)
                 /\ rest(4)
       ELSE IF b[1] \in 241..243
            THEN cont(2) /\ cont(3) /\ cont(4) /\ rest(4)
       ELSE IF b[1] = 244
            THEN n >= 2 /\ b[2] \in 128..143 /\ cont(3) /\ cont(4)
                 /\ rest(4)
       ELSE FALSE

\* What run::run may do with a module, limits and an input: return a
\* RunResult, return one of the RunErrors, or panic.
JudgeRunResult(stdout, stderr) ==
    [ kind |-> "RunResult", cost |-> 7, memory |-> 1, stdout |-> stdout,
      stderr |-> stderr, operations |-> << >> ]
JudgeRuns ==
    { JudgeRunResult(out, << >>) : out \in JudgeOutputs }
        \cup { JudgeRunResult(Text_ok, << 255 >>) }
        \cup { SpendingLimitExceeded(0), MemoryLimitExceeded(0),
               RuntimeError(<< >>), CompileError(<< >>), IOError(<< >>) }
        \cup { Panic("run") }

\* A task: where it is, what it returns (a triple), and whether it has asked
\* the URL for the input and has called run::run.
NoTriple == [spec |-> Err(""), input |-> Err(""), result |-> None]
Task(i) == [ spec |-> i, at |-> "spawned", input |-> "", fetched |-> FALSE,
             ran |-> FALSE, ret |-> NoTriple ]
Ended(t) == t.at \in {"returned", "panicked"}

JudgeResult(success, cost_, memory_, exception, reason) ==
    [ success |-> success, cost |-> cost_, memory |-> memory_,
      message |-> None, exception |-> exception, reason |-> reason ]

\* The name the judge gives a RunError (judge.rs:197-203).
ExecutionName(e) ==
    CASE e.variant = "SpendingLimitExceeded" -> "SLE"
      [] e.variant = "MemoryLimitExceeded" -> "MLE"
      [] e.variant = "RuntimeError" -> "RE"
      [] e.variant = "CompileError" -> "CE"
      [] e.variant = "IOError" -> "IOE"

\* One round of the second loop of run_specs on the triple a task returned
\* (judge.rs:139-213): the JudgeResult pushed, or nothing when an unwrap
\* panics.
Judged(spec, triple) ==
    IF ~triple.spec.ok
    THEN Some(JudgeResult(FALSE, None, None, "Spec", triple.spec.v))
    ELSE IF ~triple.input.ok
    THEN Some(JudgeResult(FALSE, None, None, "Input", triple.input.v))
    ELSE LET result == triple.result[1]
         IN IF result.kind = "RunResult"
            THEN IF ~ValidUtf8(result.stdout) \/ ~ValidUtf8(result.stderr)
                 THEN None
                 ELSE LET success == judge_output(spec, result.stdout)
                      IN IF ~success.ok
                         THEN Some(JudgeResult(FALSE, Some(result.cost),
                                               Some(result.memory), "Output",
                                               success.v))
                         ELSE Some(JudgeResult(TRUE, Some(result.cost),
                                               Some(result.memory), "", ""))
            ELSE Some(JudgeResult(FALSE, None, None, "Execution",
                                  ExecutionName(result)))

JudgeInit ==
    /\ request \in [wasm : {1}, budget : {S1Budget}, mem : {1},
                    input : {<< >>}]
    /\ pc = "judge"
    /\ Fresh
    /\ tunables = << CeilingPages(request.mem) >>
    /\ host_call = NoCall
    /\ host_ret = NoReturn
    /\ guest_memory = << >>
    /\ host_calls = 0
    /\ PairIdle
    /\ CompileIdle
    /\ TeardownIdle
    /\ specs \in UNION { [1..n -> JudgeSpecs] : n \in 0..MaxSpecs }
    /\ tasks = << >>
    /\ results = << >>
    /\ judging = "spawning"

judgeUnchanged == << runVars, tunables, host_call, host_ret, guest_memory,
                     host_calls, pairVars, compileVars, teardownVars, specs >>

\* One round of the first loop (judge.rs:107-134): the task of the next spec
\* is spawned and pushed.
SpawnTask ==
    /\ judging = "spawning"
    /\ Len(tasks) < Len(specs)
    /\ tasks' = Append(tasks, Task(Len(tasks) + 1))
    /\ UNCHANGED << results, judging, judgeUnchanged >>

\* The first loop is over (judge.rs:136).
StartCollecting ==
    /\ judging = "spawning"
    /\ Len(tasks) = Len(specs)
    /\ judging' = "collecting"
    /\ UNCHANGED << tasks, results, judgeUnchanged >>

\* A task returns its triple.
Returns(i, spec_, input_, result_) ==
    tasks' = [tasks EXCEPT ![i].at = "returned",
                           ![i].ret = [spec |-> spec_, input |-> input_,
                                       result |-> result_]]

\* spec.check_spec().await and the early return (judge.rs:110-113).
CheckSpec(i) ==
    /\ tasks[i].at = "spawned"
    /\ LET check == check_spec(specs[tasks[i].spec])
       IN IF ~check.ok
          THEN Returns(i, Err(check.v), Err(""), None)
          ELSE tasks' = [tasks EXCEPT ![i].at = "checked"]
    /\ UNCHANGED << results, judging, judgeUnchanged >>

\* spec.make_input().await and the early return (judge.rs:115-120).
MakeInput(i) ==
    /\ tasks[i].at = "checked"
    /\ LET spec == specs[tasks[i].spec]
           asked == [tasks EXCEPT
                       ![i].fetched = (spec.input = None
                                         /\ spec.input_url # None)]
       IN IF make_input(spec) = { }
          THEN tasks' = [asked EXCEPT ![i].at = "panicked"]
          ELSE \E input \in make_input(spec) :
                  IF ~input.ok
                  THEN tasks' = [asked EXCEPT
                                   ![i].at = "returned",
                                   ![i].ret = [spec |-> Ok(""),
                                               input |-> Err(input.v),
                                               result |-> None]]
                  ELSE tasks' = [asked EXCEPT ![i].at = "input",
                                              ![i].input = input.v]
    /\ UNCHANGED << results, judging, judgeUnchanged >>

\* The blocking task that calls run::run, and the await on it
\* (judge.rs:122-131): a panic of run is a panic of the task.
RunBlocking(i) ==
    /\ tasks[i].at = "input"
    /\ \E result \in JudgeRuns :
          IF result.kind = "Panic"
          THEN tasks' = [tasks EXCEPT ![i].at = "panicked", ![i].ran = TRUE]
          ELSE tasks' = [tasks EXCEPT
                           ![i].at = "returned", ![i].ran = TRUE,
                           ![i].ret = [spec |-> Ok(""),
                                       input |-> Ok(tasks[i].input),
                                       result |-> Some(result)]]
    /\ UNCHANGED << results, judging, judgeUnchanged >>

\* The task of a spawned spec takes its next step.
TaskStep(i) == CheckSpec(i) \/ MakeInput(i) \/ RunBlocking(i)

\* One round of the second loop (judge.rs:138-213): the next task in
\* submission order is awaited; task.await.unwrap() panics when the task
\* panicked, and so does the unwrap of a text that is not UTF-8.
Collect ==
    /\ judging = "collecting"
    /\ Len(results) < Len(tasks)
    /\ LET task == tasks[Len(results) + 1]
       IN /\ Ended(task)
          /\ IF task.at = "panicked"
             THEN judging' = "panicked" /\ UNCHANGED results
             ELSE LET r == Judged(specs[task.spec], task.ret)
                  IN IF r = None
                     THEN judging' = "panicked" /\ UNCHANGED results
                     ELSE /\ results' = Append(results, r[1])
                          /\ UNCHANGED judging
    /\ UNCHANGED << tasks, judgeUnchanged >>

\* JudgeResults { results, error: None } (judge.rs:215-218).
ReturnResults ==
    /\ judging = "collecting"
    /\ Len(results) = Len(tasks)
    /\ judging' = "returned"
    /\ UNCHANGED << tasks, results, judgeUnchanged >>

JudgeNext ==
    \/ SpawnTask \/ StartCollecting \/ Collect \/ ReturnResults
    \/ \E i \in 1..Len(tasks) : TaskStep(i)

\* Spawned tasks and run_specs itself go on whenever they can.
JudgeSpec == JudgeInit /\ [][JudgeNext]_vars /\ WF_vars(JudgeNext)

\* ------------------------------------------------ several runs in a process

\* getrandom::getrandom, which the guest's random_get reaches.  The function
\* registered at lib.rs:11 serves a request only on a target getrandom has no
\* implementation of its own for; on every other target the buffer is filled
\* with the operating system's entropy `os`.
Targets == {"supported", "unsupported"}
getrandom(tgt, buf, os) ==
    IF tgt = "unsupported" THEN deterministic_random(buf)
    ELSE [result |-> "Ok", buf |-> [i \in 1..Len(buf) |-> os[i]]]

\* What the operating system's entropy source hands one run.
OsBytes == { << 7, 200 >>, << 91, 3 >> }

\* Reads the clock, asks for two random bytes, reads two bytes of stdin, and
\* writes its memory to stdout and to stderr.
P_echo ==
    Module(TRUE, << "clock_time_get", "random_get", "fd_read", "fd_write" >>,
           << << OpA("Call", 1), Op("Drop"), OpA("Call", 2), Op("Drop"),
                 OpA("Call", 3), Op("Drop"),
                 OpA("I32Const", 1), OpA("Call", 4), Op("Drop"),
                 OpA("I32Const", 2), OpA("Call", 4), Op("Drop"),
                 Op("End") >> >>,
           1, TRUE, 1, 0)

\* Reads two bytes of stdin and writes its memory to stdout.
P_cat ==
    Module(TRUE, << "clock_time_get", "random_get", "fd_read", "fd_write" >>,
           << << OpA("Call", 3), Op("Drop"),
                 OpA("I32Const", 1), OpA("Call", 4), Op("Drop"),
                 Op("End") >> >>,
           1, TRUE, 1, 0)

PairPrograms == << P_echo, P_cat >>

\* The requests of the runs: a budget that is enough and, for the first
\* program, one that is not; no input and the bytes "42".
PairRequests ==
    { r \in [ wasm : 1..Len(PairPrograms), budget : {PairShort, PairBudget},
              mem : {1}, input : {<< >>, << 52, 50 >>} ] :
        r.wasm = 1 \/ r.budget = PairBudget }

\* Mutant: one middleware for the whole process.
Cost_new_Shared(h, budget) ==
    IF h = << >>
    THEN [ heap |-> << [ budget |-> budget, global_indexes |-> << >>,
                         operation_counts |-> << >> ] >>, at |-> 1 ]
    ELSE [ heap |-> h, at |-> 1 ]

\* Cost::new (cost.rs:78-84) behind Arc::new (run.rs:54): a new object.
Cost_new(h, budget) ==
    [ heap |-> Append(h, [ budget |-> budget, global_indexes |-> << >>,
                           operation_counts |-> << >> ]),
      at |-> Len(h) + 1 ]

\* run() entered with a request (run.rs:46-52): nothing allocated yet.
NewRun(req, os) ==
    [ request |-> req, os |-> os, pc |-> "new", metering |-> 0, store |-> 0,
      stdin |-> 0, stdout |-> 0, stderr |-> 0, code |-> << >>,
      global_indexes |-> << >>, global_initializers |-> << >>, ip |-> 0, stack |-> << >>,
      startResult |-> NoStart, result |-> [kind |-> "none"] ]

Finished(r, res) == [r EXCEPT !.pc = "done", !.result = res]

\* let metering = Arc::new(Cost::new(budget)) (run.rs:54).
new_run(r, h) ==
    LET c == Cost_new(h, r.request.budget)
    IN [ run |-> [r EXCEPT !.metering = c.at, !.pc = "compile"],
         heap |-> c.heap ]

\* Module::new (run.rs:65) with the run's middleware: the module-level pass
\* and the function-level passes, on the middleware object's own fields.
compile_run(r, h) ==
    LET m == PairPrograms[r.request.wasm]
        self == h[r.metering]
        t == transform_module_info(
                [budget |-> self.budget,
                 global_indexes |-> self.global_indexes],
                OriginalModuleInfo(m))
        c == CompileFunctions(t.global_indexes[1], self.operation_counts,
                              m.funcs, 1, << >>)
    IN IF t.panic
       THEN [ run |-> Finished(r, Panic("transform_module_info")),
              heap |-> h ]
       ELSE [ run |-> [r EXCEPT !.code = c.code[1],
                                !.global_indexes = t.global_indexes,
                                !.global_initializers =
                                   t.module_info.global_initializers,
                                !.pc = "setup"],
              heap |-> [h EXCEPT ![r.metering] =
                          [ budget |-> self.budget,
                            global_indexes |-> t.global_indexes,
                            operation_counts |-> c.operation_counts ]] ]

\* The pipes (run.rs:68-70), the instance with its globals and its zeroed
\* memory (run.rs:90-99), and the input line written to stdin (run.rs:106).
setup_run(r, h) ==
    LET n == Len(h)
    IN [ run |-> [r EXCEPT !.stdin = n + 1, !.stdout = n + 2,
                           !.stderr = n + 3, !.store = n + 4,
                           !.ip = 1, !.pc = "start"],
         heap |-> h \o << r.request.input \o << 10 >>, << >>, << >>,
                          [ globals |-> r.global_initializers,
                            view |-> [i \in 1..MemLen |-> 0] ] >> ]

\* The injected prelude at r.ip (cost.rs:463-479) run as a whole: the
\* exhausted flag set and a trap when less remains than the block costs,
\* the cost subtracted otherwise.
charge(r, h) ==
    LET gi == r.global_indexes[1]
        c == r.code[r.ip + 1].arg
        g == h[r.store].globals
        remaining == g[gi.remaining_points + 1]
    IN IF i64_lt_u(remaining, c) = 1
       THEN [ run |-> [r EXCEPT !.pc = "finish",
                                !.startResult =
                                   [kind |-> "Trap",
                                    code |-> "UnreachableCodeReached",
                                    inj |-> TRUE]],
              heap |-> [h EXCEPT ![r.store].globals[gi.points_exhausted + 1]
                                    = 1] ]
       ELSE [ run |-> [r EXCEPT !.ip = @ + Len(Prelude(gi, 0))],
              heap |-> [h EXCEPT ![r.store].globals[gi.remaining_points + 1]
                                    = i64_sub(remaining, c)] ]

\* A host function called by the guest, on the run's own store and pipes.
host_call_run(r, h, tgt, name) ==
    LET view == h[r.store].view
        top == Len(r.stack)
        next == [r EXCEPT !.ip = @ + 1]
    IN CASE name = "clock_time_get" ->
              LET t == clock_time_get_32(<< "memory" >>, view, 0, 0, 0)
              IN [ run |-> [next EXCEPT !.stack = Append(@, t.errno)],
                   heap |-> [h EXCEPT ![r.store].view = t.view] ]
         [] name = "random_get" ->
              LET g == getrandom(tgt, << 0, 0 >>, r.os)
              IN [ run |-> [next EXCEPT !.stack = Append(@, 0)],
                   heap |-> [h EXCEPT ![r.store].view =
                               WasmPtrWrite(view, 8, g.buf).view] ]
         [] name = "fd_read" ->
              LET pipe == h[r.stdin]
                  n == IF Len(pipe) < 2 THEN Len(pipe) ELSE 2
              IN [ run |-> [next EXCEPT !.stack = Append(@, 0)],
                   heap |-> [h EXCEPT
                      ![r.stdin] = SubSeq(pipe, n + 1, Len(pipe)),
                      ![r.store].view =
                         WasmPtrWrite(view, 10, SubSeq(pipe, 1, n)).view] ]
         [] name = "fd_write" ->
              LET to == IF r.stack[top] = 1 THEN r.stdout ELSE r.stderr
              IN [ run |-> [next EXCEPT !.stack =
                              Append(SubSeq(r.stack, 1, top - 1), 0)],
                   heap |-> [h EXCEPT ![to] = @ \o view] ]

\* One step of the guest inside start.call (run.rs:114).
guest_step(r, h, tgt) ==
    LET o == r.code[r.ip]
    IN CASE o.inj -> charge(r, h)
         [] o.op = "I32Const" ->
              [ run |-> [r EXCEPT !.stack = Append(@, o.arg), !.ip = @ + 1],
                heap |-> h ]
         [] o.op = "Drop" ->
              [ run |-> [r EXCEPT !.stack = SubSeq(@, 1, Len(@) - 1),
                                  !.ip = @ + 1],
                heap |-> h ]
         [] o.op = "Call" ->
              host_call_run(r, h, tgt,
                            PairPrograms[r.request.wasm].imports[o.arg])
         [] o.op = "End" ->
              [ run |-> [r EXCEPT !.pc = "finish",
                                  !.startResult = [kind |-> "Ok", code |-> "",
                                                   inj |-> FALSE]],
                heap |-> h ]

\* get_remaining_points (cost.rs:492-514) on a store's globals.
remaining_points_of(g, gi) ==
    IF g[gi.points_exhausted + 1] > 0
    THEN [tag |-> "Exhausted", points |-> 0]
    ELSE [tag |-> "Remaining", points |-> as_u64(g[gi.remaining_points + 1])]

\* run() after start.call (run.rs:114-253): the result classified, the cost
\* and the memory read, the pipes drained, the histogram copied.
finish_run(r, h) ==
    LET remaining_budget == remaining_points_of(h[r.store].globals,
                                                r.global_indexes[1])
        c == classify_start(r.startResult, remaining_budget,
                            r.request.budget, r.request.mem)
    IN [ run |->
           Finished(r,
             IF c # Continue THEN c
             ELSE [ kind |-> "RunResult",
                    cost |-> RunCost(r.request.budget,
                                     remaining_budget.points),
                    memory |->
                       MemoryMB(PairPrograms[r.request.wasm].minPages),
                    stdout |-> h[r.stdout], stderr |-> h[r.stderr],
                    operations |-> h[r.metering].operation_counts ]),
         heap |-> h ]

\* The next step of a run.
step_run(r, h, tgt) ==
    CASE r.pc = "new" -> new_run(r, h)
      [] r.pc = "compile" -> compile_run(r, h)
      [] r.pc = "setup" -> setup_run(r, h)
      [] r.pc = "start" -> guest_step(r, h, tgt)
      [] r.pc = "finish" -> finish_run(r, h)

\* A run executed alone: in a process where nothing else is allocated and
\* no other thread takes a step.
RECURSIVE run_to_end(_, _, _)
run_to_end(r, h, tgt) ==
    IF r.pc = "done" THEN r.result
    ELSE LET n == step_run(r, h, tgt) IN run_to_end(n.run, n.heap, tgt)
executed_alone(req, os, tgt) == run_to_end(NewRun(req, os), << >>, tgt)

PairInit ==
    /\ request \in [wasm : {1}, budget : {S1Budget}, mem : {1},
                    input : {<< >>}]
    /\ pc = "pair"
    /\ Fresh
    /\ tunables = << CeilingPages(request.mem) >>
    /\ host_call = NoCall
    /\ host_ret = NoReturn
    /\ guest_memory = << >>
    /\ host_calls = 0
    /\ CompileIdle
    /\ RestIdle
    /\ target \in Targets
    /\ heap = << >>
    /\ \E reqs \in [Threads -> PairRequests], os \in [Threads -> OsBytes] :
          /\ target = "unsupported" => \A s \in Threads : os[s] = << 7, 200 >>
          /\ runs = [s \in Threads |-> NewRun(reqs[s], os[s])]

pairUnchanged ==
    << runVars, tunables, host_call, host_ret, guest_memory, host_calls,
       target, compileVars, restVars >>

\* Thread s is at `at` in its run; it takes the step n.
At(s, at) == pc = "pair" /\ runs[s].pc = at
Takes(s, n) ==
    /\ runs' = [runs EXCEPT ![s] = n.run]
    /\ heap' = n.heap
    /\ UNCHANGED pairUnchanged

NewCost(s) ==
    /\ At(s, "new")
    /\ Takes(s, new_run(runs[s], heap))

CompileRun(s) ==
    /\ At(s, "compile")
    /\ Takes(s, compile_run(runs[s], heap))

SetUpRun(s) ==
    /\ At(s, "setup")
    /\ Takes(s, setup_run(runs[s], heap))

GuestStepRun(s) ==
    /\ At(s, "start")
    /\ Takes(s, guest_step(runs[s], heap, target))

FinishRun(s) ==
    /\ At(s, "finish")
    /\ Takes(s, finish_run(runs[s], heap))

PairNext ==
    \E s \in Threads :
       \/ NewCost(s) \/ CompileRun(s) \/ SetUpRun(s) \/ GuestStepRun(s)
       \/ FinishRun(s)

PairSpec == PairInit /\ [][PairNext]_vars

\* ------------------------------------------------------------ observations

\* The two cost globals as the host would read them now.
RemainingNow == as_u64(ExportedGlobal("compilet_cost_remaining_points"))
ExhaustedNow == ExportedGlobal("compilet_cost_points_exhausted")
Instantiated == globals # << >>
Consumed == request.budget - RemainingNow

Returned(variant) == outcome.kind = "RunError" /\ outcome.variant = variant
Succeeded == outcome.kind = "RunResult"
Trapped(c) == startResult.kind = "Trap" /\ startResult.code = c

\* The static cost of the operators body[from..to].
RECURSIVE SumCost(_, _, _)
SumCost(body, from, to) ==
    IF from > to THEN 0
    ELSE OpCost(body[from].op) + SumCost(body, from + 1, to)

\* ------------------------------------------------------------------ claims

\* C1: whenever run returns a RunResult, its cost is the budget minus the
\* final value of the remaining-points global and lies in 0..budget; and at
\* every point of the execution the remaining points do not exceed the budget.
C1_CostIsBudgetMinusRemaining ==
    /\ Instantiated => RemainingNow <= request.budget
    /\ Succeeded =>
          /\ outcome.cost = request.budget - RemainingNow
          /\ 0 <= outcome.cost
          /\ outcome.cost <= request.budget

\* A run that succeeded after several basic blocks, with part of the budget spent.
C1_Witness ==
    /\ Succeeded
    /\ iters >= 2
    /\ 0 < outcome.cost
    /\ outcome.cost < request.budget

\* C2: whenever run returns SpendingLimitExceeded, start.call ended with the
\* trap UnreachableCodeReached, the exhausted global reads 1, and the error
\* carries the request's budget.
C2_SpendingLimitExceeded ==
    Returned("SpendingLimitExceeded") =>
       /\ Trapped("UnreachableCodeReached")
       /\ ExhaustedNow = 1
       /\ outcome.n = request.budget

\* SpendingLimitExceeded where budget, remaining and consumed all differ.
C2_Witness ==
    /\ Returned("SpendingLimitExceeded")
    /\ RemainingNow > 0
    /\ Consumed > 0
    /\ RemainingNow # Consumed

\* C3: an UnreachableCodeReached trap is classified by the exhausted flag
\* alone.  The guest's own `unreachable` finds the flag 0 and yields
\* RuntimeError("Unreachable code reached.") whatever remains; a prelude's
\* `unreachable` finds it 1 and yields SpendingLimitExceeded(budget).
C3_ClassifiedByFlag ==
    (pc = "done" /\ Trapped("UnreachableCodeReached")) =>
       IF startResult.inj
       THEN /\ ExhaustedNow = 1
            /\ outcome = SpendingLimitExceeded(request.budget)
       ELSE /\ ExhaustedNow = 0
            /\ outcome = RuntimeError(<< "Unreachable code reached." >>)

\* The guest's own `unreachable` executed with nothing remaining.
C3_Witness ==
    /\ pc = "done"
    /\ Trapped("UnreachableCodeReached")
    /\ ~startResult.inj
    /\ RemainingNow = 0
    /\ request.budget > 0
    /\ outcome = RuntimeError(<< "Unreachable code reached." >>)

IsForever == wasm = P_forever \/ wasm = P_spin

C5_MeterReflectsExecuted ==
    (Instantiated /\ justLeft) =>
       (Consumed = executedCost \/ ExhaustedNow = 1)

IsCountedLoop == wasm = P_counted \/ wasm = P_counted2
\* K: the static cost of the loop's block, from after the `loop` header to
\* its first terminator (the br_if); and the static cost of the operators a
\* successful run executes outside the iterations.
LoopK == SumCost(wasm.funcs[1], 2, 7)
LoopOutside ==
    IF wasm = P_counted
    THEN OpCost("Loop") + OpCost("End") + OpCost("End")
    ELSE OpCost("Loop") + OpCost("Return")

C7_EmptyCostsZero ==
    (wasm = P_empty /\ request.budget = S1Budget /\ Succeeded) =>
       /\ outcome.cost = 0
       /\ code[1] = << Op("End") >>

\* C7, amended: the no-op module costs 1: the final `end` has static cost 1,
\* added before the flush test, so it is preceded by one prelude with
\* constant 1; memory is the declared minimum in MB, stdout and stderr are
\* empty.
C7_EmptyCostsOne ==
    (wasm = P_empty /\ Succeeded) =>
       /\ outcome.cost = 1
       /\ Len(code[1]) = 13
       /\ code[1][2] = Inj("I64Const", 1)
       /\ code[1][13] = Op("End")
       /\ outcome.memory = (wasm.minPages + 15) \div 16
       /\ outcome.stdout = << >>
       /\ outcome.stderr = << >>

\* The no-op module run to success with budget 1,000,000.
C7_Witness ==
    /\ wasm = P_empty
    /\ request.budget = S1Budget
    /\ Succeeded

OtherTraps ==
    {"StackOverflow", "HeapAccessOutOfBounds", "HeapMisaligned",
     "TableAccessOutOfBounds", "IndirectCallToNull", "BadSignature",
     "IntegerOverflow", "IntegerDivisionByZero", "BadConversionToInteger",
     "UnalignedAtomic"}

\* The message the design gives each trap code.
ExpectedTrapMessage ==
    [ StackOverflow |-> "Stack overflow",
      HeapAccessOutOfBounds |-> "Heap access out of bounds",
      HeapMisaligned |-> "Heap misaligned",
      TableAccessOutOfBounds |-> "Table access out of bounds",
      IndirectCallToNull |-> "Indirect call to null",
      BadSignature |-> "Bad signature",
      IntegerOverflow |-> "Integer overflow",
      IntegerDivisionByZero |-> "Integer division by zero",
      BadConversionToInteger |-> "Bad conversion to integer",
      UnalignedAtomic |-> "Unaligned atomic" ]

\* C8: a trap with any code other than UnreachableCodeReached makes run
\* return RuntimeError with that code's fixed message, whatever the cost
\* globals hold; never SpendingLimitExceeded or MemoryLimitExceeded.
C8_OtherTrapsAreRuntimeErrors ==
    (pc = "done" /\ startResult.kind = "Trap"
       /\ startResult.code \in OtherTraps) =>
       outcome = RuntimeError(<< ExpectedTrapMessage[startResult.code] >>)

\* An unaligned atomic access after part of the budget was consumed.
C8_Witness ==
    /\ pc = "done"
    /\ Trapped("UnalignedAtomic")
    /\ Consumed > 0
    /\ outcome = RuntimeError(<< "Unaligned atomic" >>)

HostEnded == startResult.kind \notin {"none", "Ok", "Trap"}

\* What run returns when start.call completed (normal return or exit with
\* errno Success): the RunResult, unless a pipe could not be drained.
CompletedOutcome ==
    \/ /\ Succeeded
       /\ outcome.cost = Consumed
       /\ outcome.memory = (pages + 15) \div 16
       /\ outcome.stdout = stdout_pipe
       /\ outcome.stderr = stderr_pipe
    \/ Returned("IOError")

\* C9 as stated: every host error other than a WASI exit and
\* UnknownWasiVersion yields RuntimeError.
C9_AnyOtherHostErrorIsRuntimeError ==
    (pc = "done" /\ startResult.kind \in {"ThreadExit", "DeepSleep", "Other"})
       => Returned("RuntimeError")

\* C9, amended: exit with errno Success is treated like a normal return;
\* Toobig yields MemoryLimitExceeded(ceiling); any other errno yields
\* RuntimeError("Exited with errno <errno>"); UnknownWasiVersion yields
\* RuntimeError("Unknown WASI version"); a host error that is not a WasiError
\* yields RuntimeError with its message; ThreadExit and DeepSleep abort run
\* without a result.
C9_HostErrors ==
    (pc = "done" /\ HostEnded) =>
       CASE startResult.kind = "Exit" /\ startResult.code = "Success" ->
              CompletedOutcome
         [] startResult.kind = "Exit" /\ startResult.code = "Toobig" ->
              outcome = MemoryLimitExceeded(request.mem)
         [] startResult.kind = "Exit"
               /\ startResult.code \notin {"Success", "Toobig"} ->
              outcome = RuntimeError(<< "Exited with errno",
                                        startResult.code >>)
         [] startResult.kind = "UnknownWasiVersion" ->
              outcome = RuntimeError(<< "Unknown WASI version" >>)
         [] startResult.kind = "Other" ->
              outcome = RuntimeError(<< "host error" >>)
         [] startResult.kind \in {"ThreadExit", "DeepSleep"} ->
              outcome.kind = "Panic"

\* An exit with errno Toobig reported with the request's ceiling.
C9_Witness ==
    /\ pc = "done"
    /\ startResult.kind = "Exit"
    /\ startResult.code = "Toobig"
    /\ request.mem > 1
    /\ outcome = MemoryLimitExceeded(request.mem)

\* C10 as stated: every run ends in a RunResult or a RunError.
C10_ResultOrError ==
    pc = "done" => outcome.kind \in {"RunResult", "RunError"}

StartStates == {"none", "Ok", "Trap", "Exit", "UnknownWasiVersion",
                "ThreadExit", "DeepSleep", "Other"}

\* C10, amended: every run that returns ends in exactly one outcome, a
\* complete RunResult or a single RunError, set once and never changed; a run
\* can also abort (a panic) and then returns nothing.  A RunError carries no
\* cost, memory, stdout, stderr or histogram.  The start invocation goes
\* Ready -> Running -> (Completed | Trapped | Exited) and never back.
C10_OneOutcome ==
    /\ [](pc = "done" <=> outcome.kind # "none")
    /\ [](outcome.kind \in {"none", "RunResult", "RunError", "Panic"})
    /\ [](outcome.kind = "RunResult" =>
            /\ DOMAIN outcome = {"kind", "cost", "memory", "stdout",
                                 "stderr", "operations"}
            /\ startResult.kind \in {"Ok", "Exit"})
    /\ [](outcome.kind = "RunError" =>
            DOMAIN outcome = {"kind", "variant", "n", "msg"})
    /\ [][outcome.kind # "none" => outcome' = outcome]_vars
    /\ [][/\ (startResult.kind # "none" => startResult' = startResult)
          /\ (startResult' # startResult => Running)
          /\ (Running' => (Running \/ pc = "get_start"))]_vars

\* A run that returned an error after the guest wrote output and consumed budget.
C10_Witness ==
    /\ outcome.kind = "RunError"
    /\ Len(stdout_pipe) > 0
    /\ Len(stderr_pipe) > 0
    /\ Consumed > 0

\* The phases of run() before start.call, and those whose failure is an IO
\* failure.
CompilePhases == {"compile", "wasi_env", "imports", "instantiate",
                  "initialize", "get_start"}
IOPhases == {"write_stdin", "drain_stdout", "drain_stderr"}
BeforeStart == CompilePhases \cup {"app_memory", "write_stdin"}

\* C11: a failure returned from module decode, WASI environment setup,
\* import-object construction, instantiation, WASI initialization or the
\* lookup of `_start` is a CompileError; one returned from the stdin write or
\* a drain is an IOError; a run that ended before the start invocation never
\* executed a guest operator, and is never reported as RuntimeError,
\* SpendingLimitExceeded or MemoryLimitExceeded.
C11_FailuresByPhase ==
    /\ [][(pc \in CompilePhases /\ outcome'.kind = "RunError")
             => outcome'.variant = "CompileError"]_vars
    /\ [][(pc \in IOPhases /\ outcome'.kind = "RunError")
             => outcome'.variant = "IOError"]_vars
    /\ [][(pc \in BeforeStart /\ pc' = "done") =>
             /\ frames' = << >>
             /\ startResult' = NoStart
             /\ executedCost' = 0]_vars
    /\ []((pc = "done" /\ startResult = NoStart) =>
             /\ frames = << >>
             /\ executedCost = 0
             /\ stdout_pipe = << >>
             /\ outcome.kind = "RunError" =>
                  outcome.variant \in {"CompileError", "IOError"})

\* A run refused because the module exports no `_start`, after stdin was
\* written.
C11_Witness ==
    /\ pc = "done"
    /\ outcome = CompileError(<< "missing export _start" >>)
    /\ stdin_pipe # << >>
    /\ startResult = NoStart

\* The guest is about to execute one of its own memory.grow operators.
AtGrow == Running /\ Len(frames) > 0 /\ Cur.op = "MemoryGrow"
GrowFailed == U32Modulus - 1

\* C12: in every state the instance memory's size in pages is at most the
\* ceiling mem*16 and at most min(declared maximum, ceiling); only
\* instantiation and memory.grow change the size; a grow either adds the
\* requested pages and returns the old size, or fails with -1 and leaves the
\* size unchanged, and it fails exactly when the new size would exceed the
\* maximum presented to the guest.
C12_PagesWithinCeiling ==
    /\ [](/\ pages <= request.mem * 16
          /\ pages <= AdjustedMaximum(wasm.maxPages, request.mem * 16))
    /\ [][pages' # pages => (pc = "instantiate" \/ AtGrow)]_vars
    /\ [][(AtGrow /\ pc' = "running" /\ frames' # frames) =>
            LET r == stack'[Len(stack')]
                limit == AdjustedMaximum(wasm.maxPages, request.mem * 16)
            IN \/ /\ r = GrowFailed
                  /\ pages' = pages
                  /\ \E d \in GrowDeltas \cup {Peek(0)} :
                        d # AnyVal /\ pages + d > limit
               \/ /\ r = pages
                  /\ pages' >= pages
                  /\ pages' <= limit]_vars

\* The memory was grown up to the ceiling and the next grow was refused.
C12_Witness ==
    /\ wasm = P_grow
    /\ request.mem = 1
    /\ pages = 16
    /\ Len(stack) > 0
    /\ stack[Len(stack)] = GrowFailed

\* The module decodes and declares more minimum pages than the ceiling.
Oversized == wasm.decodes /\ wasm.minPages > CeilingPages(request.mem)

\* C13: a module whose declared minimum memory exceeds the ceiling in pages
\* never gets past instantiation: the instantiation step returns CompileError,
\* whatever the run returns is a CompileError (never MemoryLimitExceeded), no
\* instance exists, `_start` is never invoked and stdin is never written.
C13_OversizedIsRefused ==
    /\ [](Oversized =>
            /\ pc \in {"compile", "wasi_env", "imports", "instantiate", "done"}
            /\ globals = << >>
            /\ pages = 0
            /\ frames = << >>
            /\ startResult = NoStart
            /\ stdin_pipe = << >>
            /\ (pc = "done" => Returned("CompileError")))
    /\ [][(Oversized /\ pc = "instantiate") =>
             (pc' = "done" /\ outcome'.variant = "CompileError")]_vars

\* The 100-page module refused by the tunables at instantiation.
C13_Witness ==
    /\ wasm = P_bigmem
    /\ pc = "done"
    /\ outcome = CompileError(<< "memory minimum exceeds the limit" >>)

\* C15: on every successful run the reported memory is ceil(pages/16) of the
\* instance memory's size when run ended, (pages+15)/16, and is at most the
\* request's ceiling in MB; and if the computed value exceeded the ceiling,
\* run would abort and return no RunResult.
C15_ReportedMemory ==
    /\ [](Succeeded =>
            /\ outcome.memory = (pages + 15) \div 16
            /\ outcome.memory * 16 >= pages
            /\ (outcome.memory - 1) * 16 < pages
            /\ outcome.memory <= request.mem)
    /\ [][(pc = "read_memory" /\ (pages + 15) \div 16 > request.mem)
             => outcome'.kind = "Panic"]_vars

\* A run that grew its memory to 17 pages and reports 2 MB.
C15_Witness ==
    /\ Succeeded
    /\ wasm = P_grow
    /\ pages = 17
    /\ outcome.memory = 2

\* `_start` has been invoked (it is executing or start.call has returned).
Started == Running \/ startResult # NoStart

\* C19: from the moment `_start` is invoked the stdin pipe holds exactly the
\* request's input followed by one newline; the pipe is written once, by the
\* stdin write, which happens before the start invocation; and a failed
\* write returns IOError with `_start` never invoked.
C19_StdinBeforeStart ==
    /\ [](Started => stdin_pipe = request.input \o << "\n" >>)
    /\ [](stdin_pipe \in {<< >>, request.input \o << "\n" >>})
    /\ [][stdin_pipe' # stdin_pipe =>
             (pc = "write_stdin" /\ stdin_pipe = << >> /\ ~Started
              /\ pc' = "get_start")]_vars
    /\ [][(pc = "write_stdin" /\ pc' = "done") =>
             (outcome'.variant = "IOError" /\ stdin_pipe' = << >>
              /\ ~Started')]_vars
    /\ []((pc = "done" /\ stdin_pipe = << >>) => ~Started)

\* `_start` executing with a two-byte input and the newline in the pipe.
C19_Witness ==
    /\ Running
    /\ executedCost > 0
    /\ Len(request.input) = 2
    /\ stdin_pipe = request.input \o << "\n" >>

\* C14: for every memory ceiling mem a request may carry, the page ceiling
\* handed to the memory tunables is mem*16 exactly, and the tunables are
\* always built.
C14_CeilingIsExact ==
    /\ tunables # << >> => tunables[1] = request.mem * 16
    /\ outcome.kind # "Panic"

ClockCalled == host_call.fn = "clock_time_get"
ResultInBounds == host_call.result + 8 <= Len(guest_memory)
ResultBytes == (host_call.result + 1)..(host_call.result + 8)

\* C16 as stated: every call to clock_time_get writes the 64-bit value 0 at
\* the result pointer and returns errno Success.
C16_EveryCallWritesZero ==
    ClockCalled =>
       /\ host_ret = [result |-> "Ok", errno |-> 0]
       /\ ResultInBounds
       /\ \A i \in ResultBytes : guest_memory[i] = 0

\* C16, amended: a call to clock_time_get made once the instance's memory
\* has been captured, in any of the five namespaces and for any clock id and
\* precision, returns errno Success (0); when the 8 bytes at the result
\* pointer lie inside the guest memory they are set to 0 and no other byte
\* changes; when they do not, nothing is written and the call still returns
\* Success.  A call made before the memory is captured (from a module's start
\* function, during instantiation) aborts the run.
C16_ClockWritesZero ==
    ClockCalled =>
       IF outcome.kind = "Panic"
       THEN /\ app_memory = << >>
            /\ guest_memory = host_call.before
       ELSE /\ app_memory # << >>
            /\ host_ret = [result |-> "Ok", errno |-> 0]
            /\ IF ResultInBounds
               THEN \A i \in 1..Len(guest_memory) :
                       guest_memory[i] = IF i \in ResultBytes THEN 0
                                         ELSE host_call.before[i]
               ELSE guest_memory = host_call.before

\* A second call, through wasix_64v1 with a clock id and a precision other
\* than 0, that zeroed the last 8 bytes of the memory.
C16_Witness ==
    /\ ClockCalled
    /\ host_calls = 2
    /\ host_call.ns = "wasix_64v1"
    /\ host_call.clock_id = 1
    /\ host_call.precision = 1000
    /\ host_call.result = MemLen - 8
    /\ host_ret = [result |-> "Ok", errno |-> 0]
    /\ guest_memory # host_call.before
    /\ \A i \in ResultBytes : guest_memory[i] = 0

\* Both runs of the process have returned a RunResult.
BothReturned ==
    /\ pc = "pair"
    /\ \A s \in Threads :
          runs[s].pc = "done" /\ runs[s].result.kind = "RunResult"

\* C18 as stated: two runs of the same module with the same budget, the same
\* ceiling and the same stdin produce byte-identical stdout and stderr.
C18_SameRequestSameOutput ==
    (BothReturned /\ runs[1].request = runs[2].request) =>
       /\ runs[1].result.stdout = runs[2].result.stdout
       /\ runs[1].result.stderr = runs[2].result.stderr

\* What a run holds on the heap: its middleware, its store and its pipes.
Owned(r) == {r.metering, r.store, r.stdin, r.stdout, r.stderr} \ {0}

\* C20: in every interleaving of the runs of a process, a run that has
\* finished has the outcome (cost, memory, stdout, stderr, histogram, or
\* error) it has when executed alone, no object is held by two runs, and a
\* step of one run changes nothing that another run holds.
C20_RunsAreIsolated ==
    /\ [](pc = "pair" =>
            /\ \A s \in Threads :
                  runs[s].pc = "done" =>
                     runs[s].result = executed_alone(runs[s].request,
                                                     runs[s].os, target)
            /\ \A s, t \in Threads :
                  s # t => Owned(runs[s]) \cap Owned(runs[t]) = {})
    /\ [][pc = "pair" =>
            \A t \in Threads :
               runs'[t] = runs[t] =>
                  \A a \in Owned(runs[t]) : heap'[a] = heap[a]]_vars

\* Two different requests whose runs interleaved (the run that created its
\* middleware first set up its store last); one returned a result and the
\* other ran out of budget.
C20_Witness ==
    /\ pc = "pair"
    /\ \A s \in Threads : runs[s].pc = "done"
    /\ runs[1].metering < runs[2].metering
    /\ runs[2].store < runs[1].store
    /\ runs[1].request.wasm = runs[2].request.wasm
    /\ runs[1].request.budget = PairBudget
    /\ runs[2].request.budget = PairShort
    /\ runs[1].result.kind = "RunResult"
    /\ runs[1].result.cost > PairShort
    /\ runs[2].result = SpendingLimitExceeded(PairShort)

\* The indexes of the two cost globals, and the values they hold.
RemainingIndex == global_indexes[1].remaining_points
ExhaustedIndex == global_indexes[1].points_exhausted
CostGlobals == << globals[RemainingIndex + 1], globals[ExhaustedIndex + 1] >>

\* C21: once the instance exists, a step that changes the remaining-points
\* global or the exhausted global executes a global.set of an injected
\* prelude; an operator of the module's own never names either global,
\* neither to read it nor to write it, and leaves both as they are.
C21_OnlyPreludesTouchCostGlobals ==
    [][Instantiated =>
         /\ CostGlobals' # CostGlobals =>
               (Running /\ Cur.inj /\ Cur.op = "GlobalSet")
         /\ (Running /\ ~Cur.inj) =>
               /\ CostGlobals' = CostGlobals
               /\ Cur.op \in {"GlobalGet", "GlobalSet"} =>
                     Cur.arg \notin {RemainingIndex, ExhaustedIndex}]_vars

\* The guest has written a global of its own (index 0) while the preludes
\* have been charging the cost globals at the indexes after it.
C21_Witness ==
    /\ wasm = P_brtable
    /\ Instantiated
    /\ RemainingIndex = 1
    /\ globals[1] = 2
    /\ Consumed > 0
    /\ ExhaustedNow = 0

\* The guest is about to execute the operator `name` of an injected prelude.
AtInjected(name) == Running /\ Cur.inj /\ Cur.op = name
\* The constant of the prelude whose operator k positions back is its
\* i64.const, as an unsigned number.
PreludeConstant(back) == as_u64(Body[Top.ip - back].arg)

\* C22: inside an executed prelude with constant c, the `if` is entered
\* exactly when remaining < c (unsigned); the exhausted flag is set only
\* then, to 1, with remaining unchanged, and the injected unreachable then
\* traps with both globals unchanged; the subtraction is reached only when
\* remaining >= c and sets remaining to remaining - c, leaving the flag
\* unchanged.
C22_PreludeSemantics ==
    [][/\ AtInjected("If") =>
             frames'[Len(frames')].ip =
                IF RemainingNow < PreludeConstant(2)
                THEN Top.ip + 1 ELSE Top.ip + 5
       /\ (AtInjected("GlobalSet") /\ Cur.arg = ExhaustedIndex) =>
             /\ RemainingNow < PreludeConstant(4)
             /\ ExhaustedNow' = 1
             /\ RemainingNow' = RemainingNow
       /\ AtInjected("Unreachable") =>
             /\ ExhaustedNow = 1
             /\ CostGlobals' = CostGlobals
             /\ startResult'.kind = "Trap"
             /\ startResult'.code = "UnreachableCodeReached"
       /\ (AtInjected("GlobalSet") /\ Cur.arg = RemainingIndex) =>
             /\ RemainingNow >= PreludeConstant(2)
             /\ RemainingNow' = RemainingNow - PreludeConstant(2)
             /\ ExhaustedNow' = ExhaustedNow]_vars

\* A prelude whose constant equalled what remained has just subtracted it:
\* nothing remains and the flag is not set.
C22_Witness ==
    /\ Running
    /\ Top.ip > 1
    /\ Body[Top.ip - 1].inj
    /\ Body[Top.ip - 1].op = "GlobalSet"
    /\ Body[Top.ip - 1].arg = RemainingIndex
    /\ PreludeConstant(3) = request.budget
    /\ request.budget > 1
    /\ RemainingNow = 0
    /\ ExhaustedNow = 0

\* What the last feed call was given and what it wrote to the reader state.
LastFed == fed'[Len(fed')]
Emitted == SubSeq(fc'.state, Len(fc.state) + 1, Len(fc'.state))
FedOne == pc = "feed" /\ fed' # fed

\* C23: feed adds the operator's static cost to accumulated_cost first and
\* tests for a flush second: a prelude is emitted exactly when the operator
\* is loop, end, else, br, br_table, br_if, call, call_indirect or return and
\* the sum is greater than 0; its constant is that sum and accumulated_cost
\* is reset to 0.  Otherwise only the operator is written and
\* accumulated_cost keeps the sum.
C23_FlushRule ==
    [][FedOne =>
         LET total == fc.accumulated_cost + OpCost(LastFed.op)
             flush == /\ LastFed.op \in {"Loop", "End", "Else", "Br",
                                         "BrTable", "BrIf", "Call",
                                         "CallIndirect", "Return"}
                      /\ total > 0
         IN IF flush
            THEN /\ Len(Emitted) = 13
                 /\ \A i \in 1..12 : Emitted[i].inj
                 /\ Emitted[2] = Inj("I64Const", total)
                 /\ Emitted[10] = Inj("I64Const", total)
                 /\ Emitted[13] = LastFed
                 /\ fc'.accumulated_cost = 0
            ELSE /\ Emitted = << LastFed >>
                 /\ fc'.accumulated_cost = total]_vars

\* A body in which a terminator of cost 0 flushed what the operators before
\* it had accumulated, and an `if` before it had flushed nothing.
C23_Witness ==
    /\ pc = "feed"
    /\ Len(fed) = 3
    /\ fed[1].op = "GlobalSet"
    /\ fed[2].op = "If"
    /\ fed[3].op = "Return"
    /\ Len(fc.state) = 15
    /\ fc.state[4] = Inj("I64Const", 3)
    /\ fc.accumulated_cost = 0

\* The operators of a stream that the middleware did not inject.
OwnOperators(stream) == SelectSeq(stream, LAMBDA o : ~o.inj)
\* The positions of a stream where a run of injected operators begins.
PreludeStarts(stream) ==
    { i \in 1..Len(stream) :
        stream[i].inj /\ (i = 1 \/ ~stream[i - 1].inj) }

\* C24: the stream a function-level pass writes, with the injected operators
\* removed, is the sequence of operators it was fed (same operators, same
\* immediates, same order); the injected operators come in runs of exactly
\* twelve, each the fixed prelude for some constant, each immediately
\* followed by one of the module's own terminators.
C24_OriginalPreserved ==
    pc = "feed" =>
       /\ OwnOperators(fc.state) = fed
       /\ \A i \in PreludeStarts(fc.state) :
             /\ i + 12 <= Len(fc.state)
             /\ SubSeq(fc.state, i, i + 11) =
                   Prelude(fc.global_indexes, fc.state[i + 1].arg)
             /\ ~fc.state[i + 12].inj
             /\ fc.state[i + 12].op \in Terminators
       /\ Len(fc.state) = Len(fed) + 12 * Cardinality(PreludeStarts(fc.state))

\* A body of three operators with different immediates, two of which
\* triggered a prelude.
C24_Witness ==
    /\ pc = "feed"
    /\ fed = << OpA("GlobalSet", 1), OpA("Br", 1), OpA("Call", 1) >>
    /\ PreludeStarts(fc.state) = {2, 15}
    /\ Len(fc.state) = 27

\* What the last feed call added to the accumulated cost.
Charged ==
    (IF Len(Emitted) > 1 THEN Emitted[2].arg ELSE fc'.accumulated_cost)
       - fc.accumulated_cost

\* The costs the table is said to hold, operator by operator.
StatedCosts ==
    /\ OpCost("LocalGet") = 0
    /\ \A n \in {"GlobalSet", "F32Store", "F64Store", "I32Store", "I64Store",
                 "I32Store8", "I32Store16", "I64Store8", "I64Store16",
                 "I64Store32"} : OpCost(n) = 2
    /\ \A n \in {"I32AtomicLoad", "I32AtomicLoad8U", "I32AtomicLoad16U",
                 "I64AtomicLoad", "I64AtomicLoad8U", "I64AtomicLoad16U",
                 "I64AtomicLoad32U"} : OpCost(n) = 11
    /\ \A n \in {"I32AtomicStore", "I32AtomicStore8", "I32AtomicStore16",
                 "I64AtomicStore", "I64AtomicStore8", "I64AtomicStore16",
                 "I64AtomicStore32"} : OpCost(n) = 12
    /\ \A n \in {"I32Mul", "I64Mul", "F32Mul", "F64Mul"} : OpCost(n) = 2
    /\ \A n \in {"I32DivS", "I32DivU", "I32RemS", "I32RemU", "I64DivS",
                 "I64DivU", "I64RemS", "I64RemU", "F32Div", "F64Div"} :
          OpCost(n) = 3
    /\ \A n \in {"F32Sqrt", "F64Sqrt"} : OpCost(n) = 2
    /\ \A n \in {"MemoryInit", "MemoryCopy", "MemoryFill"} : OpCost(n) = 6
    /\ OpCost("Call") = 4
    /\ OpCost("CallIndirect") = 6
    /\ OpCost("DataDrop") = 5
    /\ OpCost("Throw") = 100
    /\ \A n \in {"Return", "Unreachable", "Nop", "Drop", "Try"} :
          OpCost(n) = 0
    /\ \A n \in {"RefNull", "RefIsNull", "RefFunc", "TableGet", "TableSet",
                 "TableGrow", "MemoryAtomicNotify", "AtomicFence",
                 "I32AtomicRmwAdd", "I64AtomicRmwCmpxchg", "V128Load",
                 "V128Const", "I8x16Swizzle", "F32x4Mul", "I32x4Add",
                 "ReturnCall", "Rethrow", "Catch", "Delegate",
                 "TypedSelect"} : OpCost(n) = 1000

\* C29: the cost feed adds for an operator is the table's value for its kind
\* (the stated values hold, and an operator the table does not list is given
\* 1000), whatever the operator's immediate and whatever was fed before it.
C29_CostTable ==
    [][FedOne => (Charged = OpCost(LastFed.op) /\ StatedCosts)]_vars

\* After operators that accumulated 102, an operator the table does not list
\* was fed and the accumulator stands at 1102.
C29_Witness ==
    /\ pc = "feed"
    /\ Len(fed) = 3
    /\ fed[1] = OpA("GlobalSet", 1)
    /\ fed[2] = Op("Throw")
    /\ fed[3] = Op("RefNull")
    /\ fc.accumulated_cost = 1102

\* The module-level pass has run on the request's module.
Transformed == pc \notin {"compile", "tunables"} /\ global_indexes # << >>
OwnGlobals == wasm.nglobals
Before == OriginalModuleInfo(wasm)
TheTwoNames ==
    {"compilet_cost_remaining_points", "compilet_cost_points_exhausted"}

\* What the pass appended and recorded: two globals after the module's own,
\* a mutable i64 holding the budget and a mutable i32 holding 0, exported
\* under the two names, their indexes recorded and used by every prelude.
TwoAppended ==
    /\ Len(module_info.globals) = OwnGlobals + 2
    /\ SubSeq(module_info.globals, 1, OwnGlobals) = Before.globals
    /\ SubSeq(module_info.global_initializers, 1, OwnGlobals) =
          Before.global_initializers
    /\ module_info.globals[OwnGlobals + 1] = [ty |-> "I64", mut |-> "Var"]
    /\ module_info.globals[OwnGlobals + 2] = [ty |-> "I32", mut |-> "Var"]
    /\ as_u64(module_info.global_initializers[OwnGlobals + 1])
          = request.budget
    /\ module_info.global_initializers[OwnGlobals + 2] = 0
    /\ RemainingIndex = OwnGlobals
    /\ ExhaustedIndex = OwnGlobals + 1
    /\ { x \in module_info.exports : x.name \in TheTwoNames } =
          { [name |-> "compilet_cost_remaining_points", kind |-> "Global",
             index |-> RemainingIndex],
            [name |-> "compilet_cost_points_exhausted", kind |-> "Global",
             index |-> ExhaustedIndex] }
    /\ \A f \in 1..Len(code) : \A i \in 1..Len(code[f]) :
          (code[f][i].inj /\ code[f][i].op \in {"GlobalGet", "GlobalSet"})
             => code[f][i].arg \in {RemainingIndex, ExhaustedIndex}
    /\ \A f \in 1..Len(code) : \A i \in PreludeStarts(code[f]) :
          SubSeq(code[f], i, i + 11) =
             Prelude(global_indexes[1], code[f][i + 1].arg)

\* C25 as stated: after the module-level pass the two globals are appended,
\* initialized, exported and recorded, and every existing global,
\* initializer and export of the module is unchanged.
C25_ExistingUnchanged ==
    Transformed => (TwoAppended /\ Before.exports \subseteq module_info.exports)

\* C25, amended: after the module-level pass the two globals are appended,
\* initialized, exported and recorded; the module's existing globals and
\* initializers are unchanged, and so are its existing exports except one
\* that bears one of the two names, which now designates the cost global.
C25_TwoGlobalsAppended ==
    Transformed =>
       /\ TwoAppended
       /\ { x \in Before.exports : x.name \notin TheTwoNames }
             = { x \in module_info.exports : x.name \notin TheTwoNames }

\* The module that exported its own global as compilet_cost_remaining_points
\* has been compiled: the name designates the appended global.
C25_Witness ==
    /\ wasm = P_shadow
    /\ Transformed
    /\ request.budget >= Half
    /\ Before.exports \cap module_info.exports # Before.exports
    /\ RemainingIndex = 1
    /\ [name |-> "compilet_cost_remaining_points", kind |-> "Global",
        index |-> 1] \in module_info.exports

\* The places of a module's function bodies where an operator of a given name
\* stands, and the histogram that counts them.
Places(funcs) ==
    UNION { { << k, i >> : i \in 1..Len(funcs[k]) } : k \in 1..Len(funcs) }

Occurrences(funcs, name) ==
    { p \in Places(funcs) : funcs[p[1]][p[2]].op = name }

StaticCounts(funcs) ==
    [ name \in { funcs[p[1]][p[2]].op : p \in Places(funcs) } |->
        Cardinality(Occurrences(funcs, name)) ]

\* C27: after compilation the histogram has, for every operator name, the
\* number of places the operator stands at in the module handed to the
\* middleware; it is empty before, it is not touched once the module is
\* compiled, whatever the guest executes and how often, and it is what a
\* RunResult reports.
C27_HistogramIsStatic ==
    /\ [](pc = "compile" => operation_counts = << >>)
    /\ [](Transformed => operation_counts = StaticCounts(wasm.funcs))
    /\ [][pc # "compile" => operation_counts' = operation_counts]_vars
    /\ [](Succeeded =>
            outcome.operations = StaticCounts(wasm.funcs))

\* A run that returned after the guest went round a loop several times: the
\* branch was executed more often than it is counted, and an operator that
\* stands at two places is counted twice.
C27_Witness ==
    /\ Succeeded
    /\ iters >= 2
    /\ outcome.operations["BrIf"] = 1
    /\ outcome.operations["End"] = 2

\* The remaining-points global as the guest holds it: an i64 bit pattern.
RemainingBits == globals[RemainingIndex + 1]

\* C30: for every budget, those of 2^63 and above (held in the global as a
\* negative i64) included, the global read as unsigned starts at the budget,
\* never grows, and changes only by a prelude subtracting its constant from
\* a value at least as large, to exactly the difference; a prelude's test
\* refuses its block exactly when the constant exceeds the unsigned value,
\* whatever the sign of the bit pattern; and the cost a RunResult reports is
\* the budget minus that value.
C30_UnsignedBudget ==
    /\ [][(~Instantiated /\ Instantiated') =>
              /\ RemainingNow' = request.budget
              /\ RemainingBits' = as_i64(request.budget)
              /\ (request.budget >= Half <=> RemainingBits' < 0)]_vars
    /\ [][(Instantiated /\ Instantiated') =>
              /\ RemainingNow' <= RemainingNow
              /\ (RemainingNow' # RemainingNow =>
                    /\ AtInjected("GlobalSet")
                    /\ PreludeConstant(2) <= RemainingNow
                    /\ RemainingNow' + PreludeConstant(2) = RemainingNow)
              /\ (AtInjected("If") =>
                    (stack[Len(stack)] = 1 <=>
                        PreludeConstant(2) > RemainingNow))
              /\ ((ExhaustedNow = 0 /\ ExhaustedNow' = 1) =>
                    PreludeConstant(4) > RemainingNow)]_vars
    /\ [](Succeeded => outcome.cost + RemainingNow = request.budget)

\* A run with the budget 2^63 returned after spending some of it: the
\* global went from a negative bit pattern to a positive one.
C30_Witness ==
    /\ Succeeded
    /\ request.budget = Half
    /\ outcome.cost > 0
    /\ RemainingBits > 0

\* The callers whose module the module-level pass has changed.
Instrumented ==
    { t \in Threads :
         modules[t].info # OriginalModuleInfo(Programs[modules[t].wasm]) }

\* C26: the recorded indexes of a middleware, once set, never change; at most
\* one module handed to it is ever instrumented, and the indexes are those
\* of that module; a module-level pass that starts when indexes are recorded,
\* right after the first or having waited for it, panics and leaves its
\* module's globals, initializers and exports and the recorded indexes as
\* they were; and a function-level pass is created only when indexes are
\* recorded, and carries them.
C26_IndexesSetOnce ==
    /\ [](pc = "middleware" =>
            /\ Cardinality(Instrumented) <= 1
            /\ (global_indexes = << >> <=> Instrumented = {})
            /\ \A t \in Threads :
                  /\ modules[t].at = "done" => t \in Instrumented
                  /\ modules[t].at \in {"idle", "locked", "panicked"} =>
                        t \notin Instrumented
                  /\ t \in Instrumented =>
                        global_indexes[1].remaining_points + 2
                           = Len(modules[t].info.globals))
    /\ [][pc = "middleware" =>
            /\ (global_indexes # << >> => global_indexes' = global_indexes)
            /\ \A t \in Threads :
                  (modules[t].at = "locked" /\ global_indexes # << >>) =>
                     /\ modules'[t].at \in {"locked", "panicked"}
                     /\ modules'[t].info = modules[t].info
            /\ (workers' # workers =>
                  /\ global_indexes # << >>
                  /\ workers' = Append(workers,
                         FunctionCost(global_indexes[1], operation_counts)))
      ]_vars

\* A second caller's module-level pass panicked after the first one's had
\* recorded the indexes, and a function-level pass was created before that.
C26_Witness ==
    /\ pc = "middleware"
    /\ modules[1].at = "done"
    /\ modules[2].at = "panicked"
    /\ poisoned
    /\ Len(workers) = 1

AllFed == \A t \in Threads : workers[t].at = "done"

\* C28: whatever the interleaving of the feed calls of two functions, the
\* histogram changes only by the holder of its mutex raising the entry of the
\* operator it is feeding by one, once per feed call; when both functions
\* are fed it has, for every operator, the sum of the occurrences in the two
\* bodies; a thread holds the mutex only inside one feed call, never while
\* it waits for anything, and gives it back when that call returns; and
\* every thread gets through its function.
C28_ParallelCounts ==
    /\ [](pc = "parallel" =>
            /\ lock \in Threads \cup {0}
            /\ \A t \in Threads :
                  lock = t <=> workers[t].at \in {"load", "store", "rest"})
    /\ [](pc = "parallel" /\ AllFed =>
            /\ lock = 0
            /\ operation_counts =
                  StaticCounts(<< workers[1].body, workers[2].body >>))
    /\ [][(pc = "parallel" /\ operation_counts' # operation_counts) =>
            \E t \in Threads :
               /\ lock = t /\ lock' = t
               /\ workers[t].at = "store" /\ workers'[t].at = "rest"
               /\ operation_counts' =
                     CountOp(operation_counts, Feeding(t).op)]_vars
    /\ \A t \in Threads : (lock = t) ~> (lock # t)
    /\ <>[](pc = "parallel" => AllFed)

\* Both functions are fed; they differ, share an operator that each has
\* once, and one has another operator twice.
C28_Witness ==
    /\ pc = "parallel"
    /\ AllFed
    /\ workers[1].body # workers[2].body
    /\ "Drop" \in DOMAIN operation_counts
    /\ operation_counts["End"] = 2
    /\ operation_counts["Drop"] = 2

\* The phases of run() after a start invocation that completed normally.
AfterNormalEnd == {"on_exit", "read_cost", "read_memory", "drain_stdout",
                   "drain_stderr", "return"}

\* C32: a run whose start invocation completed normally with the exhausted
\* flag set would abort at the cost read-back and return no RunResult; for an
\* instrumented module that state does not occur: the flag goes from 0 to 1
\* only by a prelude's global.set, the next operator is the prelude's
\* unreachable, and the only step from there is the trap.
C32_FlagNeverOnSuccess ==
    /\ [](Succeeded => ExhaustedNow = 0)
    /\ [](pc \in AfterNormalEnd =>
            /\ startResult.kind \in {"Ok", "Exit"}
            /\ ExhaustedNow = 0)
    /\ [][(pc = "read_cost" /\ get_remaining_points.tag = "Exhausted") =>
            outcome'.kind = "Panic"]_vars
    /\ [][(Instantiated /\ Instantiated' /\ ExhaustedNow # ExhaustedNow') =>
            /\ AtInjected("GlobalSet")
            /\ ExhaustedNow = 0 /\ ExhaustedNow' = 1
            /\ Running' /\ Cur'.inj /\ Cur'.op = "Unreachable"]_vars
    /\ [][(Running /\ ExhaustedNow = 1) =>
            /\ AtInjected("Unreachable")
            /\ startResult'.kind = "Trap"
            /\ ~Running']_vars

\* A prelude has just set the flag and its unreachable is the next operator.
C32_Witness ==
    /\ Running
    /\ ExhaustedNow = 1
    /\ AtInjected("Unreachable")
    /\ RemainingNow > 0

\* C33: from instantiation on, what remains never grows and never exceeds the
\* budget; the exhausted flag is 0 or 1 and never goes back to 0; the step
\* that sets it leaves what remains as it was, and once it is set no operator
\* of the module's own executes and what remains does not change any more.
C33_MonotoneGlobals ==
    /\ [](Instantiated =>
            /\ RemainingNow <= request.budget
            /\ ExhaustedNow \in {0, 1})
    /\ [][(Instantiated /\ Instantiated') =>
            /\ RemainingNow' <= RemainingNow
            /\ ExhaustedNow' >= ExhaustedNow
            /\ (ExhaustedNow' # ExhaustedNow => RemainingNow' = RemainingNow)
            /\ (ExhaustedNow = 1 =>
                  /\ RemainingNow' = RemainingNow
                  /\ ~(Running /\ ~Cur.inj)
                  /\ executedCost' = executedCost)]_vars

\* A run refused after blocks of its own had executed: the flag is set, part
\* of the budget is spent and the rest, less than the refused block costs,
\* is still there.
C33_Witness ==
    /\ pc = "done"
    /\ Instantiated
    /\ ExhaustedNow = 1
    /\ executedCost > 0
    /\ 0 < RemainingNow
    /\ RemainingNow < request.budget

\* The phases of run() up to the capture of the memory, and those from the
\* initialization of the WASI environment to the return.
UpToCapture == {"compile", "wasi_env", "imports", "instantiate", "app_memory"}
FromInitialize ==
    {"initialize", "write_stdin", "get_start", "running", "classify"}
       \cup AfterNormalEnd

\* What a clock_time_get call arriving now would do.
ClockNow == clock_time_get_32(app_memory, guest_memory, 0, 0, 0)

\* C35: the memory cell is empty through compilation and instantiation and
\* holds the instance's export `memory` in every later phase; it changes
\* once, right after instantiation, with stdin not yet written and no guest
\* frame on the stack, and never again; a clock_time_get call panics exactly
\* while the cell is empty, so none made while `_start` runs does.
C35_MemoryCell ==
    /\ [](pc \in UpToCapture => app_memory = << >>)
    /\ [](pc \in FromInitialize =>
            /\ app_memory = << "memory" >>
            /\ Instantiated
            /\ \E e \in module_info.exports :
                  e.name = "memory" /\ e.kind = "Memory")
    /\ [][app_memory' # app_memory =>
            /\ pc = "app_memory" /\ pc' = "initialize"
            /\ app_memory = << >> /\ app_memory' = << "memory" >>
            /\ Instantiated
            /\ stdin_pipe = << >>
            /\ frames = << >> /\ startResult = NoStart]_vars
    /\ [](ClockNow.panic <=> app_memory = << >>)
    /\ [](Running => (~ClockNow.panic /\ ClockNow.errno = 0))

\* The guest is running with the input written and the memory captured.
C35_Witness ==
    /\ Running
    /\ iters > 0
    /\ stdin_pipe # << >>
    /\ app_memory = << "memory" >>
    /\ ~ClockNow.panic

\* The compiled module exports no memory under the name `memory`.
NoMemoryExport ==
    ~\E e \in module_info.exports : e.name = "memory" /\ e.kind = "Memory"

\* C36: when the module has compiled and instantiated and exports no memory
\* named `memory`, the step after instantiation aborts the run: the outcome
\* is a panic, neither a RunResult nor a RunError, nothing was written to
\* stdin and no guest operator ran; no later phase of run() is reached.
C36_NoMemoryAborts ==
    /\ [][(pc = "app_memory" /\ NoMemoryExport) =>
            /\ pc' = "done"
            /\ outcome' = Panic("should get memory")]_vars
    /\ []((Instantiated /\ NoMemoryExport) =>
            /\ pc \in {"app_memory", "done"}
            /\ app_memory = << >>
            /\ stdin_pipe = << >>
            /\ frames = << >>
            /\ startResult = NoStart
            /\ executedCost = 0
            /\ (pc = "done" =>
                  /\ outcome.kind = "Panic"
                  /\ outcome.kind \notin {"RunResult", "RunError"}))

\* A module without a memory was compiled and instantiated, and the run has
\* aborted.
C36_Witness ==
    /\ pc = "done"
    /\ wasm = P_nomemory
    /\ Instantiated
    /\ pages = 0
    /\ outcome = Panic("should get memory")

\* C37: a clock_time_get call, made once the memory is captured, whose 8
\* result bytes do not lie inside the guest memory returns errno Success,
\* leaves every byte of the guest memory as it was, and ends neither the
\* invocation nor the run.
C37_WriteFailureIgnored ==
    (ClockCalled /\ app_memory # << >> /\ ~ResultInBounds) =>
       /\ host_ret.result = "Ok"
       /\ host_ret.errno = 0
       /\ guest_memory = host_call.before
       /\ outcome.kind = "none"
       /\ pc = "host"

\* The call asked for the result one byte past the last place it fits at, in
\* the namespace with 64-bit pointers, and returned.
C37_Witness ==
    /\ ClockCalled
    /\ app_memory = << "memory" >>
    /\ host_call.ns = "wasix_64v1"
    /\ host_call.result = MemLen - 7
    /\ host_ret = [result |-> "Ok", errno |-> 0]

\* The sum of the constants of the preludes of a stream, from position i on.
RECURSIVE PreludeTotal(_, _)
PreludeTotal(stream, i) ==
    IF i > Len(stream) THEN 0
    ELSE (IF stream[i].inj /\ (i = 1 \/ ~stream[i - 1].inj)
          THEN as_u64(stream[i + 1].arg) ELSE 0)
         + PreludeTotal(stream, i + 1)

\* C34: a function-level pass starts with accumulated_cost 0 and nothing
\* written; at every point the constants of the preludes written so far plus
\* accumulated_cost make the sum of the static costs of the operators fed so
\* far; and right after an `end` (the last operator of a function is one), as
\* after any other terminator, accumulated_cost is 0, so the preludes carry
\* the whole static cost of the function and nothing is left for another.
C34_CostConserved ==
    pc = "feed" =>
       /\ fed = << >> => (fc.accumulated_cost = 0 /\ fc.state = << >>)
       /\ PreludeTotal(fc.state, 1) + fc.accumulated_cost
             = SumCost(fed, 1, Len(fed))
       /\ (fed # << >> /\ fed[Len(fed)].op \in Terminators) =>
             /\ fc.accumulated_cost = 0
             /\ PreludeTotal(fc.state, 1) = SumCost(fed, 1, Len(fed))

\* A function of three operators ending in `end`, with two preludes that
\* carry its whole static cost: 1004 and 1.
C34_Witness ==
    /\ pc = "feed"
    /\ fed = << Op("RefNull"), OpA("Call", 1), Op("End") >>
    /\ fc.accumulated_cost = 0
    /\ Cardinality(PreludeStarts(fc.state)) = 2
    /\ PreludeTotal(fc.state, 1) = 1005

\* The local of run() that is dropped next: the first of DropOrder still alive.
NextDropped == CHOOSE i \in 1..Len(DropOrder) :
                  /\ DropOrder[i] \in live
                  /\ \A j \in 1..(i - 1) : DropOrder[j] \notin live

\* C31: at the end of a run whose start function completed, the WASI
\* environment is signalled first; the cost globals and the memory size are
\* read with the instance, the module and the store alive; the locals are then
\* dropped one at a time in the order sandbox, instance, module, store (or all
\* at once when run() leaves); stdout is drained only after that, with no
\* writer end alive, and stderr only after stdout; the drain comes to an end,
\* and a RunResult carries every byte that was written.
C31_DrainAfterDrop ==
    /\ [][pc = "on_exit" => (pc' = "read_cost" /\ live' = live
                              /\ cost' = cost /\ max_mem' = max_mem)]_vars
    /\ [](pc \in {"on_exit", "read_cost", "read_memory"} =>
             {"instance", "module", "store"} \subseteq live)
    /\ [][live' # live =>
            \/ live' = {}
            \/ /\ pc \in {"drop_sandbox", "drop_instance", "drop_module",
                           "drop_store"}
               /\ live' = live \ {DropOrder[NextDropped]}]_vars
    /\ [](pc \in {"drain_stdout", "drain_stderr", "return"} =>
             (live = {} /\ writers = {}))
    /\ [](pc \notin {"drain_stdout", "drain_stderr", "return", "done"} =>
             drained = [stdout |-> << >>, stderr |-> << >>])
    /\ [](pc = "drain_stdout" => drained.stderr = << >>)
    /\ [][pc = "drain_stderr" => drained'.stdout = drained.stdout]_vars
    /\ (pc = "drain_stdout") ~> (pc = "done")
    /\ [](outcome.kind = "RunResult" =>
             /\ stdout_pipe = << >> /\ stderr_pipe = << >>
             /\ outcome.stdout \in TeardownStdout
             /\ outcome.stderr \in TeardownStderr)

\* A run that wrote three bytes to stdout and two to stderr returned them all.
C31_Witness ==
    /\ pc = "done"
    /\ outcome.kind = "RunResult"
    /\ outcome.stdout = << "o", "o", "o" >>
    /\ outcome.stderr = << "e", "e" >>
    /\ live = {}

\* The spec asks for more than the judge allows, or names no input.
BadSpec(spec) ==
    \/ spec.cost > 1000000000
    \/ spec.memory > 2048
    \/ (spec.input = None /\ spec.input_url = None)

\* The task of spec i returned early because its input could not be made.
InputFailed(i) ==
    /\ tasks[i].at = "returned"
    /\ tasks[i].ret.spec.ok
    /\ ~tasks[i].ret.input.ok

\* The run of spec i returned a RunResult.
RanToResult(i) ==
    /\ tasks[i].at = "returned"
    /\ tasks[i].ret.result # None
    /\ tasks[i].ret.result[1].kind = "RunResult"

\* C39: a task asks the URL for the input only once check_spec has passed and
\* calls run::run only once the input is made; the task of a spec beyond a
\* limit or without input never fetches and never runs, and its result is a
\* Spec exception; a task whose input could not be made never runs, and its
\* result is an Input exception; the task of every spec comes to an end,
\* whatever becomes of its neighbours, and that of any other spec ends having
\* called run::run, its result being none of the two exceptions; cost and memory are reported exactly for the specs whose run
\* returned a RunResult.
C39_ValidatedFirst ==
    /\ [][\A i \in 1..Len(tasks) :
            /\ (tasks'[i].fetched /\ ~tasks[i].fetched) =>
                  tasks[i].at = "checked"
            /\ (tasks'[i].ran /\ ~tasks[i].ran) => tasks[i].at = "input"]_vars
    /\ [](\A i \in 1..Len(tasks) :
             /\ BadSpec(specs[i]) => (~tasks[i].fetched /\ ~tasks[i].ran)
             /\ InputFailed(i) => (tasks[i].fetched /\ ~tasks[i].ran))
    /\ [](\A i \in 1..Len(results) :
             /\ BadSpec(specs[i]) <=> results[i].exception = "Spec"
             /\ InputFailed(i) <=> results[i].exception = "Input"
             /\ results[i].exception \in {"Spec", "Input"} =>
                   (~results[i].success /\ ~tasks[i].ran)
             /\ results[i].exception \notin {"Spec", "Input"} =>
                   tasks[i].ran
             /\ results[i].cost # None <=> RanToResult(i)
             /\ results[i].memory # None <=> RanToResult(i))
    /\ <>(Len(tasks) = Len(specs) /\ \A i \in 1..Len(tasks) : Ended(tasks[i]))
    /\ [](\A i \in 1..Len(tasks) :
             (Ended(tasks[i]) /\ ~BadSpec(specs[i])) =>
                (tasks[i].ran \/ InputFailed(i)))

\* A submission of two specs, the first beyond the cost limit and the second
\* in order: the first result is a Spec exception without cost or memory, the
\* second a success with both.
C39_Witness ==
    /\ judging = "returned"
    /\ Len(results) = 2
    /\ specs[1].cost > 1000000000
    /\ results[1].exception = "Spec"
    /\ results[1].cost = None
    /\ ~tasks[1].ran
    /\ results[2].success
    /\ results[2].cost = Some(7)
    /\ tasks[2].ran

\* C38: judging a submission comes to an end with a list of results, one for
\* each spec and in submission order: result i is the one built from what the
\* task spawned for spec i returned.
C38_OneResultPerSpec ==
    /\ <>(judging = "returned")
    /\ [](judging = "returned" =>
             /\ Len(results) = Len(specs)
             /\ \A i \in 1..Len(specs) :
                   /\ tasks[i].spec = i
                   /\ Some(results[i]) = Judged(specs[i], tasks[i].ret))

=============================================================================
